---- MODULE Spec2Model ----
(***************************************************************************)
(* Wavefront computation of an n x n matrix, diagonal by diagonal.         *)
(*                                                                         *)
(* Part I  : the FastFlow farm (Emitter + Workers + feedback channels),    *)
(*           in its dynamic-chunk and static-chunk variants.               *)
(* Part II : the MPI divide-and-merge engine (WavefrontNode), the older    *)
(*           farm, the farm with a lossy feedback channel, one             *)
(*           ComputeRange call followed thread by thread, and the          *)
(*           dispatch loop of the static variant on long diagonals.        *)
(*                                                                         *)
(* Cell values are doubles in the program.  The model keeps them as        *)
(* fixed-point numbers in hundredths (1.00 is 100), rounded down, so that  *)
(* the seed (m+1)/n, the products, the sum and the cube root are all       *)
(* computed, not abstracted.                                               *)
(***************************************************************************)
EXTENDS Integers, Sequences, FiniteSets, TLC

\* ------------------------------------------------------------------------
\* Bounds of the model
\* ------------------------------------------------------------------------
MaxLength == 5      \* largest matrix length n of a farm run
MaxWorkers == 3     \* largest worker count W of a farm run

\* u64 arithmetic is modulo 2^64.  TLC integers are 32 bits wide, so the
\* model wraps at 2^30, far above every count reachable within the bounds:
\* a negative difference still becomes a huge positive number.
WordRange == 2^30
U64(x) == x % WordRange
\* static_cast<int>(u64): the two's complement reading of the low bits
ToInt(x) == IF x >= WordRange \div 2 THEN x - WordRange ELSE x
\* u16 arithmetic (static-chunk variant), modulo 2^16
U16(x) == x % (2^16)

VARIABLES
    variant,        \* "dynamic" (src/parallel_fastflow.cpp) or "static" (part_017)
    length,         \* mtx.length
    num_workers,    \* number of Worker nodes of the farm
    data,           \* mtx.data, indexed by GetIndex(row, col)
    send_info,      \* Emitter::send_info
    emitter,        \* position of the Emitter: "init", "running", "eos", "skipped"
    inq,            \* input channel of every Worker (Emitter -> Worker)
    nextw,          \* the Worker the load balancer served last
    fbq,            \* feedback channel of every Worker (Worker -> Emitter)
    worker,         \* position of every Worker inside Worker::svc
    \* history of the run
    dispatched,     \* per diagonal: the Tasks passed to ff_send_out, in order
    received,       \* per diagonal: completions the Emitter has taken
    writes,         \* per cell: the Workers that stored a result in it, in order
    advances        \* PrepareNextDiagonal calls made by Emitter::svc

farmVars == <<variant, length, num_workers, data, send_info, emitter, inq, nextw, fbq,
              worker, dispatched, received, writes, advances>>

VARIABLES
    mtx_length,     \* main: the matrix length every process reads from argv
    world_size,     \* MPI_Comm_size: the number of launched processes
    eager,          \* TRUE: MPI_Send returns once the message is buffered;
                    \* FALSE: it returns when the matching receive has taken it
    node,           \* per rank: the WavefrontNode and its position in MPIWavefront
    chan,           \* per (source, destination): the messages sent and not yet received
    \* history of the run
    rounds          \* per rank: what the node held in every round of MPIWavefront

mpiVars == <<mtx_length, world_size, eager, node, chan, rounds>>

VARIABLES
    range,          \* the ComputeRange call under way: its arguments and its matrix
    shared_temp,    \* ComputeRange: double temp, declared before the parallel loop
    iterations,     \* the iterations of the loop no thread has started
    thread          \* per OpenMP thread: its iteration and its position in the body

ompVars == <<range, shared_temp, iterations, thread>>

VARIABLES
    sending         \* the dispatch loop of the static Emitter::svc, followed Task
                    \* by Task: its SendInfo, its counter and what it has sent

loopVars == <<sending>>

vars == <<farmVars, mpiVars, ompVars, loopVars>>

\* no dispatch loop is followed Task by Task
LoopOff == sending = <<>>

\* no ComputeRange call is followed thread by thread
OmpOff ==
    /\ range = <<>>
    /\ shared_temp = 0
    /\ iterations = {}
    /\ thread = <<>>

\* ------------------------------------------------------------------------
\* SquareMtx
\* ------------------------------------------------------------------------
GetIndex(len, row, col) == (row * len) + col

\* data[(m * length) + m] = (m + 1) / length, everything else 0
InitializeMatrix(len) ==
    [idx \in 0..(len * len - 1) |->
        IF idx \div len = idx % len
        THEN ((idx \div len + 1) * 100) \div len
        ELSE 0]

\* SetValue of the farm's SquareMtx: one cell
SetValue(d, len, row, col, val) == [d EXCEPT ![GetIndex(len, row, col)] = val]

GetValue(d, len, row, col) == d[GetIndex(len, row, col)]

\* ------------------------------------------------------------------------
\* Recurrence kernel
\* ------------------------------------------------------------------------
RECURSIVE CbrtSearch(_, _, _)
CbrtSearch(y, lo, hi) ==
    IF lo >= hi THEN lo
    ELSE LET mid == (lo + hi + 1) \div 2
         IN IF mid * mid * mid <= y
            THEN CbrtSearch(y, mid, hi)
            ELSE CbrtSearch(y, lo, mid - 1)

\* std::cbrt on hundredths: cbrt(x/100)*100 = cbrt(x * 100^2), rounded down
Cbrt(x) == CbrtSearch(x * 10000, 0, 1024)

\* product of two values in hundredths
FixMul(a, b) == (a * b) \div 100

\* ComputeElement, iteration i of the loop: the cell of the first factor,
\* mtx.GetValue(elem_row, elem_row + i)
FstRead(elem_row, elem_col, i) == <<elem_row, elem_row + i>>

\* SndRead without the + 1 on the column
SndRead_NoPlusOne(elem_row, elem_col, i) == <<elem_col, elem_row + i>>

\* the cell of the second factor, mtx.GetValue(elem_col, elem_row + 1 + i)
SndRead(elem_row, elem_col, i) == <<elem_col, elem_row + 1 + i>>

RECURSIVE DotProduct(_, _, _, _, _, _)
DotProduct(d, len, elem_row, elem_col, vec_length, i) ==
    IF i >= vec_length THEN 0
    ELSE LET fst == FstRead(elem_row, elem_col, i)
             snd == SndRead(elem_row, elem_col, i)
         IN FixMul(GetValue(d, len, fst[1], fst[2]),
                   GetValue(d, len, snd[1], snd[2]))
            + DotProduct(d, len, elem_row, elem_col, vec_length, i + 1)

ComputeElement(d, len, elem_row, elem_col, vec_length) ==
    Cbrt(DotProduct(d, len, elem_row, elem_col, vec_length, 0))

\* ElemInfo that always names the first element of the diagonal
ElemInfo_FirstElem(len, num_diag, num_elem) == [row |-> 0, col |-> num_diag]

\* ElemInfo(mtx_length, num_diag, num_elem)
ElemInfo(len, num_diag, num_elem) ==
    IF len <= num_diag
    THEN [row |-> 0, col |-> 0]
    ELSE [row |-> num_elem - 1, col |-> (num_elem - 1) + num_diag]

\* ------------------------------------------------------------------------
\* SendInfo
\* ------------------------------------------------------------------------
\* Ceil with the quotient truncated instead of rounded up
Ceil_Floor(a, b) == a \div b

\* std::ceil(static_cast<float>(a) / static_cast<float>(b))
Ceil(a, b) == (a + b - 1) \div b

\* SendInfo::PrepareNextDiagonal, dynamic variant (no chunk_size member:
\* the field stays 0)
PrepareNextDiagonalDynamic(si) ==
    [si EXCEPT !.send_tasks = TRUE,
               !.diag = U64(si.diag + 1),
               !.diag_length = U64(si.diag_length - 1),
               !.computed_elements = U64(si.diag_length - 1)]

\* SendInfo::PrepareNextDiagonal, static variant:
\* chunk_size = ceil(float(diag_length) / float(num_workers))
PrepareNextDiagonalStatic(si) ==
    [si EXCEPT !.send_tasks = TRUE,
               !.diag = U16(si.diag + 1),
               !.diag_length = U16(si.diag_length - 1),
               !.computed_elements = U16(si.diag_length - 1),
               !.chunk_size = U16(Ceil(U16(si.diag_length - 1), si.num_workers))]

PrepareNextDiagonal(v, si) ==
    IF v = "dynamic" THEN PrepareNextDiagonalDynamic(si)
    ELSE PrepareNextDiagonalStatic(si)

\* SendInfo(num_workers, base_lenght): the constructor runs PrepareNextDiagonal
SendInfo(v, workers, base_lenght) ==
    PrepareNextDiagonal(v, [diag |-> 0, diag_length |-> base_lenght,
                            num_workers |-> workers, chunk_size |-> 0,
                            computed_elements |-> 0, send_tasks |-> FALSE])

\* ------------------------------------------------------------------------
\* Emitter
\* ------------------------------------------------------------------------
\* const u64 chunk_size = std::ceil(elems_to_send / remaining_workers);
\* both operands are u64, so the division is the integer division and
\* std::ceil receives an already truncated value
ChunkSize(elems_to_send, remaining_workers) == elems_to_send \div remaining_workers

\* NextStart with the increment forgotten: the next Task starts on the last
\* position of the previous one
NextStart_Overlap(end_range) == U64(end_range)

\* start_range = end_range + 1
NextStart(end_range) == U64(end_range + 1)

\* Emitter::SendTasks, the while loop: the Tasks handed to ff_send_out, in order
RECURSIVE SendTasksLoop(_, _, _, _)
SendTasksLoop(si, elems_to_send, remaining_workers, start_range) ==
    IF elems_to_send > 0 /\ remaining_workers > 0
    THEN LET chunk_size == ChunkSize(elems_to_send, remaining_workers)
             raw_end    == U64(start_range + U64(chunk_size - 1))
             end_range  == IF raw_end >= si.diag_length THEN si.diag_length
                           ELSE raw_end
             rest       == IF elems_to_send <= chunk_size THEN 0
                           ELSE elems_to_send - chunk_size
         IN <<[start_range |-> start_range, end_range |-> end_range,
               diag |-> si.diag]>>
            \o SendTasksLoop(si, rest, remaining_workers - 1, NextStart(end_range))
    ELSE <<>>

SendTasks(si) == SendTasksLoop(si, si.diag_length, si.num_workers, 1)

\* static variant, the for loop of Emitter::svc:
\* for(u16 num_elem = 1; num_elem <= diag_length; num_elem += chunk_size)
\*     Task{num_elem, num_elem + chunk_size - 1, diag}
RECURSIVE SendTasksStaticLoop(_, _, _)
SendTasksStaticLoop(si, num_elem, fuel) ==
    IF num_elem <= si.diag_length /\ fuel > 0
    THEN <<[start_range |-> num_elem,
            end_range |-> U16(num_elem + si.chunk_size - 1),
            diag |-> si.diag]>>
         \o SendTasksStaticLoop(si, U16(num_elem + si.chunk_size), fuel - 1)
    ELSE <<>>

\* the loop sends at most diag_length Tasks when chunk_size >= 1
SendTasksStatic(si) == SendTasksStaticLoop(si, 1, si.diag_length)

TasksToSend(v, si) ==
    IF v = "dynamic" THEN SendTasks(si) ELSE SendTasksStatic(si)

\* DiagonalDone that is satisfied by the first completion that counts
DiagonalDone_AnyReply(si) == si.computed_elements < si.diag_length

\* DiagonalDone that takes the first completion for the whole diagonal
DiagonalDone_FirstReply(si) == TRUE

\* DiagonalDone off by one: the diagonal counts as done while one position
\* is still outstanding
DiagonalDone_OffByOne(si) == si.computed_elements <= 1

\* if(send_info.computed_elements <= 0) on an unsigned counter
DiagonalDone(si) == si.computed_elements <= 0

\* AllDiagonalsDone with the bound of the older Emitter (row_length - 1)
\* applied to the already advanced diagonal index
AllDiagonalsDone_Early(si, len) == si.diag >= len - 1

\* if(send_info.diag >= mtx.length)
AllDiagonalsDone(si, len) == si.diag >= len

\* CountDown that subtracts the completion twice
CountDown_Twice(v, si, done) ==
    [si EXCEPT !.computed_elements =
        IF v = "dynamic" THEN U64(si.computed_elements - (2 * done))
        ELSE U16(si.computed_elements - (2 * done))]

\* send_info.computed_elements -= *done_wrk
CountDown(v, si, done) ==
    [si EXCEPT !.computed_elements =
        IF v = "dynamic" THEN U64(si.computed_elements - done)
        ELSE U16(si.computed_elements - done)]

\* ff_send_out: the farm's load balancer hands the Tasks to the Workers in
\* turn (round robin, the default scheduling policy of the farm: main sets
\* no other policy), starting after the Worker served last
NextWorker(nw, w) == (w % nw) + 1

RECURSIVE Deliver(_, _, _, _, _)
Deliver(q, tasks, nw, last, k) ==
    IF k > Len(tasks) THEN q
    ELSE LET w == NextWorker(nw, last)
         IN Deliver([q EXCEPT ![w] = Append(@, tasks[k])], tasks, nw, w, k + 1)

RECURSIVE LastServed(_, _, _)
LastServed(nw, last, k) ==
    IF k = 0 THEN last ELSE LastServed(nw, NextWorker(nw, last), k - 1)

Workers == 1..num_workers

\* the second half of Emitter::svc: if(send_info.send_tasks) SendTasks();
Dispatch(si) ==
    IF si.send_tasks
    THEN LET tasks == TasksToSend(variant, si)
         IN /\ inq' = Deliver(inq, tasks, num_workers, nextw, 1)
            /\ nextw' = LastServed(num_workers, nextw, Len(tasks))
            /\ dispatched' = [dispatched EXCEPT ![si.diag] = @ \o tasks]
            /\ send_info' = [si EXCEPT !.send_tasks = FALSE]
    ELSE /\ send_info' = si
         /\ UNCHANGED <<inq, nextw, dispatched>>

\* main: mtx_length <= 1, the farm is never run
MainSkip ==
    /\ emitter = "init"
    /\ ~(length > 1)
    /\ emitter' = "skipped"
    /\ UNCHANGED <<variant, length, num_workers, data, send_info, inq, nextw, fbq,
                   worker, dispatched, received, writes, advances>>
    /\ UNCHANGED <<mpiVars, ompVars, loopVars>>

\* Emitter::svc(nullptr): the first call, at the start of the farm
EmitterStart ==
    /\ emitter = "init"
    /\ length > 1
    /\ emitter' = "running"
    /\ Dispatch(send_info)
    /\ UNCHANGED <<variant, length, num_workers, data, fbq, worker, received,
                   writes, advances>>
    /\ UNCHANGED <<mpiVars, ompVars, loopVars>>

\* Emitter::svc(done_wrk): a Worker has returned a message
EmitterSvc(w) ==
    /\ emitter = "running"
    /\ fbq[w] # <<>>
    /\ LET msg  == Head(fbq[w])
           si1  == CountDown(variant, send_info, msg.done)
           done == DiagonalDone(si1)
           si2  == IF done THEN PrepareNextDiagonal(variant, si1) ELSE si1
       IN /\ fbq' = [fbq EXCEPT ![w] = Tail(@)]
          /\ received' = [received EXCEPT ![msg.diag] = @ + 1]
          /\ advances' = IF done THEN advances + 1 ELSE advances
          /\ IF done /\ AllDiagonalsDone(si2, length)
             THEN /\ emitter' = "eos"
                  /\ send_info' = si2
                  /\ UNCHANGED <<inq, nextw, dispatched>>
             ELSE /\ emitter' = "running"
                  /\ Dispatch(si2)
    /\ UNCHANGED <<variant, length, num_workers, data, worker, writes>>
    /\ UNCHANGED <<mpiVars, ompVars, loopVars>>

\* ------------------------------------------------------------------------
\* Worker
\* ------------------------------------------------------------------------
\* static variant, the lambda at the top of Worker::svc:
\* if(range >= limit) range = limit, with limit = mtx.length - t->num_diag
ClampLast(t, len) ==
    IF t.end_range >= U16(len - t.diag)
    THEN [t EXCEPT !.end_range = U16(len - t.diag)]
    ELSE t

\* ComputedElems without the + 1
ComputedElems_NoPlusOne(v, t) ==
    IF v = "dynamic"
    THEN ToInt(U64(t.end_range - t.start_range))
    ELSE t.end_range - t.start_range

\* the number a Worker returns
ComputedElems(v, t) ==
    IF v = "dynamic"
    THEN ToInt(U64(t.end_range - t.start_range)) + 1
    ELSE t.end_range - t.start_range + 1

Idle == [state |-> "idle", t |-> [start_range |-> 0, end_range |-> 0, diag |-> 0],
         num_elem |-> 0, temp |-> 0]

\* Worker::svc(t) is entered: the Task is taken from the input channel
WorkerTake(w) ==
    /\ worker[w].state = "idle"
    /\ inq[w] # <<>>
    /\ LET t0 == Head(inq[w])
           t  == IF variant = "static" THEN ClampLast(t0, length) ELSE t0
       IN worker' = [worker EXCEPT ![w] =
                        [state |-> "compute", t |-> t,
                         num_elem |-> t.start_range, temp |-> 0]]
    /\ inq' = [inq EXCEPT ![w] = Tail(@)]
    /\ UNCHANGED <<variant, length, num_workers, data, send_info, emitter, nextw,
                   fbq, dispatched, received, writes, advances>>
    /\ UNCHANGED <<mpiVars, ompVars, loopVars>>

\* ComputeChunk, one iteration up to the first store:
\* ComputeElement(mtx, curr_elem, num_diag, temp); mtx.SetValue(curr_elem, temp)
WorkerCompute(w) ==
    /\ worker[w].state = "compute"
    /\ worker[w].num_elem <= worker[w].t.end_range
    /\ LET wk   == worker[w]
           elem == ElemInfo(length, wk.t.diag, wk.num_elem)
           temp == ComputeElement(data, length, elem.row, elem.col, wk.t.diag)
       IN /\ data' = SetValue(data, length, elem.row, elem.col, temp)
          /\ worker' = [worker EXCEPT ![w].state = "mirror", ![w].temp = temp]
          /\ writes' = [writes EXCEPT ![GetIndex(length, elem.row, elem.col)] =
                           Append(@, w)]
    /\ UNCHANGED <<variant, length, num_workers, send_info, emitter, inq, nextw,
                   fbq, dispatched, received, advances>>
    /\ UNCHANGED <<mpiVars, ompVars, loopVars>>

\* ComputeChunk, the second store: mtx.SetValue(curr_elem.col, curr_elem.row, temp)
WorkerMirror(w) ==
    /\ worker[w].state = "mirror"
    /\ LET wk   == worker[w]
           elem == ElemInfo(length, wk.t.diag, wk.num_elem)
       IN /\ data' = SetValue(data, length, elem.col, elem.row, wk.temp)
          /\ worker' = [worker EXCEPT ![w].state = "compute",
                                      ![w].num_elem = wk.num_elem + 1]
          /\ writes' = [writes EXCEPT ![GetIndex(length, elem.col, elem.row)] =
                           Append(@, w)]
    /\ UNCHANGED <<variant, length, num_workers, send_info, emitter, inq, nextw,
                   fbq, dispatched, received, advances>>
    /\ UNCHANGED <<mpiVars, ompVars, loopVars>>

\* Worker::svc returns new int(computed_elems) through the feedback channel
WorkerReply(w) ==
    /\ worker[w].state = "compute"
    /\ worker[w].num_elem > worker[w].t.end_range
    /\ fbq' = [fbq EXCEPT ![w] =
                  Append(@, [done |-> ComputedElems(variant, worker[w].t),
                             diag |-> worker[w].t.diag])]
    /\ worker' = [worker EXCEPT ![w] = Idle]
    /\ UNCHANGED <<variant, length, num_workers, data, send_info, emitter, inq,
                   nextw, dispatched, received, writes, advances>>
    /\ UNCHANGED <<mpiVars, ompVars, loopVars>>

\* ------------------------------------------------------------------------
\* The farm
\* ------------------------------------------------------------------------
\* a farm run starts no MPI process
MpiOff ==
    /\ mtx_length = 0
    /\ world_size = 0
    /\ eager = FALSE
    /\ node = <<>>
    /\ chan = <<>>
    /\ rounds = <<>>

Init ==
    /\ variant \in {"dynamic", "static"}
    /\ length \in 1..MaxLength
    /\ num_workers \in 1..MaxWorkers
    /\ data = InitializeMatrix(length)
    /\ send_info = SendInfo(variant, num_workers, length)
    /\ emitter = "init"
    /\ inq = [w \in Workers |-> <<>>]
    /\ nextw = num_workers
    /\ fbq = [w \in Workers |-> <<>>]
    /\ worker = [w \in Workers |-> Idle]
    /\ dispatched = [d \in 1..length |-> <<>>]
    /\ received = [d \in 1..length |-> 0]
    /\ writes = [idx \in 0..(length * length - 1) |-> <<>>]
    /\ advances = 0
    /\ MpiOff
    /\ OmpOff
    /\ LoopOff

EmitterStep == MainSkip \/ EmitterStart \/ \E w \in Workers : EmitterSvc(w)

WorkerStep(w) == WorkerTake(w) \/ WorkerCompute(w) \/ WorkerMirror(w) \/ WorkerReply(w)

Next ==
    \/ MainSkip
    \/ EmitterStart
    \/ \E w \in Workers : EmitterSvc(w)
    \/ \E w \in Workers : WorkerTake(w)
    \/ \E w \in Workers : WorkerCompute(w)
    \/ \E w \in Workers : WorkerMirror(w)
    \/ \E w \in Workers : WorkerReply(w)

Spec == Init /\ [][Next]_vars

\* the FastFlow run-time keeps every node thread running, and a node with a
\* message in its input channel is eventually served
FairSpec ==
    /\ Init /\ [][Next]_vars
    /\ WF_vars(EmitterStep)
    /\ \A w \in 1..MaxWorkers : WF_vars(w \in Workers /\ WorkerStep(w))

TypeOK ==
    /\ emitter \in {"init", "running", "eos", "skipped"}
    /\ \A w \in Workers : worker[w].state \in {"idle", "compute", "mirror"}

\* ========================================================================
\* Part II : the MPI divide-and-merge engine
\* ========================================================================
MaxMtxLength == 10  \* largest matrix length n of an MPI run
MaxNodes == 4       \* largest number of launched MPI processes
MaxRangeLength == 4 \* largest matrix length for which the outcomes of the
                    \* OpenMP team of ComputeRange are followed

Ranks == 0..(world_size - 1)

\* ------------------------------------------------------------------------
\* SquareMtx of the MPI engine: SetValue stores the value and its mirror
\* ------------------------------------------------------------------------
\* SetValue that stores the value and leaves the mirror cell alone
SetValueSym_NoMirror(d, len, row, col, val) ==
    [d EXCEPT ![GetIndex(len, row, col)] = val]

\* SquareMtx::SetValue: data[GetIndex(row, col)] = val; data[GetIndex(col, row)] = val
SetValueSym(d, len, row, col, val) ==
    [d EXCEPT ![GetIndex(len, row, col)] = val,
              ![GetIndex(len, col, row)] = val]

IsElemAlreadyDone(d, len, row, col) == d[GetIndex(len, row, col)] # 0

\* ------------------------------------------------------------------------
\* ComputeRange: for(elem = start_range; elem <= end_range; ++elem)
\* ------------------------------------------------------------------------
RECURSIVE ComputeRangeLoop(_, _, _, _, _)
ComputeRangeLoop(d, len, elem, end_range, num_diag) ==
    IF elem > end_range THEN d
    ELSE LET row == elem - 1
             col == row + num_diag
             d1  == IF ~IsElemAlreadyDone(d, len, row, col)
                    THEN SetValueSym(d, len, row, col,
                                     ComputeElement(d, len, row, col, num_diag))
                    ELSE d
         IN \* the buffer after this iteration is computed once, then passed on
            CHOOSE res \in {ComputeRangeLoop(b, len, elem + 1, end_range, num_diag) :
                               b \in {d1}} : TRUE

ComputeRange(start_range, end_range, len, num_diag, d) ==
    IF start_range > len THEN d
    ELSE ComputeRangeLoop(d, len, start_range, end_range, num_diag)

\* ------------------------------------------------------------------------
\* WavefrontNode
\* ------------------------------------------------------------------------
RECURSIVE Pow2(_)
Pow2(k) == IF k <= 0 THEN 1 ELSE 2 * Pow2(k - 1)

\* GetRank with the power of the next iteration
GetRank_NextPower(id, iteration) == Pow2(iteration) * id

\* static_cast<int>(std::pow(2, iteration - 1) * id)
GetRank(id, iteration) == Pow2(iteration - 1) * id

\* GetId that returns the rank itself
GetId_NoDivide(rank, iteration) == rank

\* static_cast<int>(rank / std::pow(2, iteration - 1))
GetId(rank, iteration) == rank \div Pow2(iteration - 1)

\* IsMaster without the bound on the next id
IsMaster_NoBound(nd) == nd.my_id % 2 = 0

\* else if (my_id % 2 == 0 && (my_id + 1) < active_nodes)
IsMaster(nd) == nd.my_id % 2 = 0 /\ (nd.my_id + 1) < nd.active_nodes

\* WavefrontNode::SetRole
SetRole(nd, iteration) ==
    IF nd.my_id = 0 /\ nd.active_nodes = 1
    THEN [nd EXCEPT !.my_role = "LAST",
                    !.my_supporters = [i \in 0..1 |-> -1],
                    !.my_master = -1]
    ELSE IF IsMaster(nd)
    THEN [nd EXCEPT !.my_role = "MASTER",
                    !.my_master = -1,
                    !.my_supporters =
                        [i \in 0..1 |->
                            IF i = 0 THEN GetRank(nd.my_id + 1, iteration)
                            ELSE IF (nd.my_id + 2) + 1 = nd.active_nodes
                                 THEN GetRank(nd.my_id + 2, iteration)
                                 ELSE -1]]
    ELSE [nd EXCEPT !.my_role = "SUPPORTER",
                    !.my_supporters = [i \in 0..1 |-> -1],
                    !.my_master = IF nd.my_id % 2 = 0
                                  THEN GetRank(nd.my_id - 2, iteration)
                                  ELSE GetRank(nd.my_id - 1, iteration)]

\* UpdateStatus with the active nodes left as they were
UpdateStatus_KeepNodes(nd) == [nd EXCEPT !.my_id = nd.my_id \div 2]

\* UpdateStatus with the id divided by four
UpdateStatus_QuarterId(nd) ==
    [nd EXCEPT !.active_nodes = nd.active_nodes \div 2,
               !.my_id = nd.my_id \div 4]

\* UpdateStatus with the id left as it was
UpdateStatus_KeepId(nd) == [nd EXCEPT !.active_nodes = nd.active_nodes \div 2]

\* WavefrontNode::UpdateStatus
UpdateStatus(nd) ==
    [nd EXCEPT !.active_nodes = nd.active_nodes \div 2,
               !.my_id = nd.my_id \div 2]

\* SubMtxLength with the quotient rounded up
SubMtxLength_RoundedUp(len, active_nodes) == (len + active_nodes - 1) \div active_nodes

\* static_cast<u64>(std::ceil(my_mtx.length / active_nodes)): the operands
\* are integers, so std::ceil receives the truncated quotient
SubMtxLength(len, active_nodes) == len \div active_nodes

\* StartRange without the offset of the node's own block
StartRange_NoOffset(my_id, sub_mtx_length) == 1

\* const u64 start_range = (my_id * sub_mtx_length) + 1
StartRange(my_id, sub_mtx_length) == (my_id * sub_mtx_length) + 1

\* const u64 end_range = start_range + (diag.length - 1)
EndRange(start_range, diag_length) == start_range + (diag_length - 1)

\* WavefrontNode::ComputeSubMatrix: DiagInfo diag{sub_mtx_length, active_nodes}
\* starts at num = 1, length = sub_mtx_length - 1
RECURSIVE ComputeSubMatrixLoop(_, _, _, _, _, _)
ComputeSubMatrixLoop(d, len, my_id, sub_mtx_length, diag_num, diag_length) ==
    IF diag_num < sub_mtx_length
    THEN LET start_range == StartRange(my_id, sub_mtx_length)
             end_range   == EndRange(start_range, diag_length)
         IN CHOOSE res \in
                {ComputeSubMatrixLoop(b, len, my_id, sub_mtx_length,
                                      diag_num + 1, diag_length - 1) :
                    b \in {ComputeRange(start_range, end_range, len, diag_num, d)}} :
                TRUE
    ELSE d

ComputeSubMatrix(d, len, my_id, sub_mtx_length) ==
    ComputeSubMatrixLoop(d, len, my_id, sub_mtx_length, 1, sub_mtx_length - 1)

\* ComputeElement, the loop: the cells mtx.GetValue reads for one element
KernelReads(elem_row, elem_col, vec_length) ==
    UNION {{FstRead(elem_row, elem_col, i), SndRead(elem_row, elem_col, i)} :
              i \in 0..(vec_length - 1)}

\* ComputeElement, the loop: the pairs of cells whose products are summed
KernelPairs(elem_row, elem_col, vec_length) ==
    {<<FstRead(elem_row, elem_col, i), SndRead(elem_row, elem_col, i)>> :
        i \in 0..(vec_length - 1)}

\* ComputeRange: the elements of the range that are computed, the others
\* being skipped by if(!mtx.IsElemAlreadyDone(row, col))
RangeCells(d, len, start_range, end_range, num_diag) ==
    IF start_range > len THEN {}
    ELSE {rc \in {<<elem - 1, (elem - 1) + num_diag>> : elem \in start_range..end_range} :
             ~IsElemAlreadyDone(d, len, rc[1], rc[2])}

\* the reads of one element that leave rows and columns [lo, hi) or find a
\* cell of the buffer that holds no value yet
StrayReads(d, len, rc, num_diag, lo, hi) ==
    {q \in KernelReads(rc[1], rc[2], num_diag) :
        \/ ~(q[1] \in lo..(hi - 1) /\ q[2] \in lo..(hi - 1))
        \/ GetIndex(len, q[1], q[2]) \notin DOMAIN d
        \/ d[GetIndex(len, q[1], q[2])] = 0}

\* WavefrontNode::ComputeSubMatrix, followed diagonal by diagonal: every
\* element it computes, with the stray reads of that element.  The elements
\* of one diagonal read lower diagonals only, so each is taken against the
\* buffer as it stands when its diagonal starts.
RECURSIVE SubMatrixTrace(_, _, _, _, _, _)
SubMatrixTrace(d, len, my_id, sub_mtx_length, diag_num, diag_length) ==
    IF diag_num < sub_mtx_length
    THEN LET start_range == StartRange(my_id, sub_mtx_length)
             end_range   == EndRange(start_range, diag_length)
             here == {[cell |-> rc,
                       stray |-> StrayReads(d, len, rc, diag_num,
                                            my_id * sub_mtx_length,
                                            (my_id + 1) * sub_mtx_length)] :
                         rc \in RangeCells(d, len, start_range, end_range, diag_num)}
         IN here \cup
            CHOOSE res \in
                {SubMatrixTrace(b, len, my_id, sub_mtx_length,
                                diag_num + 1, diag_length - 1) :
                    b \in {ComputeRange(start_range, end_range, len, diag_num, d)}} :
                TRUE
    ELSE {}

\* ComputeRange with its loop shared out among several threads: temp is one
\* variable for the whole team, so the store of an element may take what
\* another iteration left in temp.  The outcomes followed here: every element
\* stores its own result, or one element of the range stores the finished
\* result of another element of the same range.
ComputeRangeOutcomes(start_range, end_range, len, num_diag, d) ==
    LET own   == ComputeRange(start_range, end_range, len, num_diag, d)
        cells == RangeCells(d, len, start_range, end_range, num_diag)
    IN {own} \cup
       {SetValueSym(own, len, e[1], e[2], GetValue(own, len, f[1], f[2])) :
           <<e, f>> \in {p \in cells \X cells : p[1] # p[2]}}

\* WavefrontNode::ComputeSubMatrix over every outcome of its ComputeRange calls
RECURSIVE SubMatrixOutcomes(_, _, _, _, _, _)
SubMatrixOutcomes(ds, len, my_id, sub_mtx_length, diag_num, diag_length) ==
    IF diag_num < sub_mtx_length
    THEN LET start_range == StartRange(my_id, sub_mtx_length)
             end_range   == EndRange(start_range, diag_length)
         IN SubMatrixOutcomes(
                UNION {ComputeRangeOutcomes(start_range, end_range, len, diag_num, d) :
                          d \in ds},
                len, my_id, sub_mtx_length, diag_num + 1, diag_length - 1)
    ELSE ds

\* the cell values a process may find when it reads past the end of its buffer
Garbage == {0, 13}

\* Segment taken from column 0 of the row instead of the first column of
\* the sub-block
Segment_FromColumnZero(nd, len, g) ==
    LET offset == GetIndex(len, nd.row, 0)
    IN [k \in 1..nd.sub_mtx_length |->
           IF (offset + k - 1) \in DOMAIN nd.data
           THEN nd.data[offset + k - 1] ELSE g]

\* MergeMatrices, SUPPORTER: the row segment handed to MPI_Send,
\* sub_mtx_length doubles starting at my_mtx.data.data() + offset
Segment(nd, len, g) ==
    LET offset == GetIndex(len, nd.row, nd.first)
    IN [k \in 1..nd.sub_mtx_length |->
           IF (offset + k - 1) \in DOMAIN nd.data
           THEN nd.data[offset + k - 1] ELSE g]

\* StoreSegment that stores the message at the start of the row
StoreSegment_RowStart(nd, len, seg) ==
    LET offset == GetIndex(len, nd.row, 0)
    IN [idx \in DOMAIN nd.data |->
           IF idx >= offset /\ idx < offset + Len(seg)
           THEN seg[idx - offset + 1] ELSE nd.data[idx]]

\* MergeMatrices, MASTER: MPI_Recv stores the message at
\* my_mtx.data.data() + offset
StoreSegment(nd, len, seg) ==
    LET offset == GetIndex(len, nd.row, nd.first)
    IN [idx \in DOMAIN nd.data |->
           IF idx >= offset /\ idx < offset + Len(seg)
           THEN seg[idx - offset + 1] ELSE nd.data[idx]]

\* NextSlot without the test if(my_supporters[i] != -1)
NextSlot_NoSkip(nd, i) == IF i >= 2 THEN 2 ELSE i

\* MergeMatrices, MASTER: the supporter slot the loop for(i = 0; i < 2; ++i)
\* serves next, from slot i on; 2 when no slot is left
RECURSIVE NextSlot(_, _)
NextSlot(nd, i) ==
    IF i >= 2 THEN 2
    ELSE IF nd.my_supporters[i] # -1 THEN i
    ELSE NextSlot(nd, i + 1)

\* first_row = GetId(my_supporters[i], iteration) * sub_mtx_length
EnterSlot(nd, i) ==
    LET first_row == GetId(nd.my_supporters[i], nd.iteration) * nd.sub_mtx_length
    IN [nd EXCEPT !.i = i, !.first = first_row, !.row = first_row,
                  !.last_row = first_row + (nd.sub_mtx_length - 1)]

\* the MASTER leaves MergeMatrices: MPIWavefront runs UpdateStatus and loops
LeaveMerge(nd) == [UpdateStatus(nd) EXCEPT !.pc = "loop"]

\* MASTER: from slot i on, either wait for the next supporter or leave
ServeFrom(nd, i) ==
    LET j == NextSlot(nd, i)
    IN IF j >= 2 THEN LeaveMerge(nd) ELSE EnterSlot(nd, j)

\* MPIWavefront, the loop body up to the merge: iteration++, SetRole,
\* sub_mtx_length, and where the node stands after ComputeSubMatrix
\* (the buffer itself is updated by RoundData)
BeginRound(nd, len) ==
    LET it  == nd.iteration + 1
        nd1 == SetRole([nd EXCEPT !.iteration = it], it)
        s   == SubMtxLength(len, nd1.active_nodes)
        nd2 == [nd1 EXCEPT !.sub_mtx_length = s]
    IN IF nd2.my_role = "LAST" THEN [nd2 EXCEPT !.pc = "done"]
       ELSE IF nd2.my_role = "SUPPORTER"
       THEN [nd2 EXCEPT !.pc = "merge",
                        !.first = nd2.my_id * s,
                        !.row = nd2.my_id * s,
                        !.last_row = (nd2.my_id * s) + (s - 1)]
       ELSE ServeFrom([nd2 EXCEPT !.pc = "merge"], 0)

\* MPIWavefront: ComputeSubMatrix(sub_mtx_length) of the round that starts,
\* with the id and the active_nodes the node holds at the top of the loop
RoundData(nd, len) ==
    ComputeSubMatrix(nd.data, len, nd.my_id, SubMtxLength(len, nd.active_nodes))

\* the buffers ComputeSubMatrix may leave in the round that starts: for a
\* matrix of at most MaxRangeLength the outcomes of the thread team, beyond
\* it the outcome in which every store takes its own result
RoundOutcomes(nd, len) ==
    IF len > MaxRangeLength THEN {RoundData(nd, len)}
    ELSE LET s == SubMtxLength(len, nd.active_nodes)
         IN SubMatrixOutcomes({nd.data}, len, nd.my_id, s, 1, s - 1)

\* what the node holds in the round that starts: the iteration, the id, the
\* active nodes, the role SetRole gives it, the sub-block side, and what
\* ComputeSubMatrix computes and reads in that round
RoundInfo(nd, len) ==
    LET it  == nd.iteration + 1
        nd1 == SetRole([nd EXCEPT !.iteration = it], it)
        s   == SubMtxLength(len, nd1.active_nodes)
        tr  == SubMatrixTrace(nd.data, len, nd.my_id, s, 1, s - 1)
    IN [iteration |-> it, my_id |-> nd1.my_id, active_nodes |-> nd1.active_nodes,
        my_role |-> nd1.my_role, my_master |-> nd1.my_master,
        my_supporters |-> nd1.my_supporters, sub_mtx_length |-> s,
        computed |-> {t.cell : t \in tr},
        stray |-> UNION {t.stray : t \in tr}]

\* AfterSend that leaves the loop one row before the last
AfterSend_OneRowShort(nd) ==
    IF nd.row + 2 > nd.last_row
    THEN [nd EXCEPT !.row = nd.row + 1, !.pc = "done"]
    ELSE [nd EXCEPT !.row = nd.row + 1]

\* SUPPORTER: one MPI_Send has returned; after the last row MPIWavefront breaks
AfterSend(nd) ==
    IF nd.row + 1 > nd.last_row
    THEN [nd EXCEPT !.row = nd.row + 1, !.pc = "done"]
    ELSE [nd EXCEPT !.row = nd.row + 1]

\* MASTER: one MPI_Recv has returned
AfterRecv(nd, len, seg) ==
    LET nd1 == [nd EXCEPT !.data = StoreSegment(nd, len, seg), !.row = nd.row + 1]
    IN IF nd1.row > nd1.last_row THEN ServeFrom(nd1, nd1.i + 1) ELSE nd1

Sending(r) ==
    /\ node[r].pc = "merge"
    /\ node[r].my_role = "SUPPORTER"
    /\ node[r].row <= node[r].last_row

Receiving(r) ==
    /\ node[r].pc = "merge"
    /\ node[r].my_role = "MASTER"
    /\ node[r].row <= node[r].last_row

\* main + the WavefrontNode constructor, up to the call of MPIWavefront
NewNode(rank, num_nodes, len) ==
    [my_id |-> rank, my_rank |-> rank, my_role |-> "MASTER", my_master |-> -1,
     my_supporters |-> [i \in 0..1 |-> IF i = 0 THEN 2 ELSE -1],
     total_nodes |-> num_nodes, active_nodes |-> num_nodes,
     data |-> InitializeMatrix(len),
     iteration |-> 0, sub_mtx_length |-> 0,
     pc |-> "loop", i |-> 0, first |-> 0, row |-> 0, last_row |-> 0]

\* main: if(num_nodes > mtx_length) num_nodes = mtx_length
NumNodes(size, len) == IF size > len THEN len ELSE size

\* one turn of the while(true) loop of MPIWavefront, up to the merge
NodeRound(r) ==
    /\ node[r].pc = "loop"
    /\ \E d \in RoundOutcomes(node[r], mtx_length) :
          node' = [node EXCEPT ![r] =
                      BeginRound([node[r] EXCEPT !.data = d], mtx_length)]
    /\ \E h \in {RoundInfo(node[r], mtx_length)} :
          rounds' = [rounds EXCEPT ![r] = Append(@, h)]
    /\ UNCHANGED <<mtx_length, world_size, eager, chan>>
    /\ UNCHANGED <<farmVars, ompVars, loopVars>>

\* SUPPORTER: MPI_Send of one row, the message is buffered
NodeSend(r) ==
    /\ eager
    /\ Sending(r)
    /\ \E g \in Garbage :
          chan' = [chan EXCEPT ![r][node[r].my_master] =
                      Append(@, Segment(node[r], mtx_length, g))]
    /\ node' = [node EXCEPT ![r] = AfterSend(node[r])]
    /\ UNCHANGED <<mtx_length, world_size, eager, rounds>>
    /\ UNCHANGED <<farmVars, ompVars, loopVars>>

\* MASTER: MPI_Recv of one row from the supporter of the current slot
NodeRecv(r) ==
    /\ Receiving(r)
    /\ LET src == node[r].my_supporters[node[r].i]
       IN /\ chan[src][r] # <<>>
          /\ node' = [node EXCEPT ![r] =
                         AfterRecv(node[r], mtx_length, Head(chan[src][r]))]
          /\ chan' = [chan EXCEPT ![src][r] = Tail(@)]
    /\ UNCHANGED <<mtx_length, world_size, eager, rounds>>
    /\ UNCHANGED <<farmVars, ompVars, loopVars>>

\* SUPPORTER and MASTER: MPI_Send of one row that completes with the
\* matching MPI_Recv (no buffering)
NodeTransfer(r) ==
    /\ ~eager
    /\ Sending(r)
    /\ LET m == node[r].my_master
       IN /\ m \in Ranks
          /\ Receiving(m)
          /\ node[m].my_supporters[node[m].i] = r
          /\ \E g \in Garbage :
                node' = [node EXCEPT
                            ![r] = AfterSend(node[r]),
                            ![m] = AfterRecv(node[m], mtx_length,
                                             Segment(node[r], mtx_length, g))]
    /\ UNCHANGED <<mtx_length, world_size, eager, chan, rounds>>
    /\ UNCHANGED <<farmVars, ompVars, loopVars>>

\* an MPI run starts no farm
FarmOff ==
    /\ variant = "none"
    /\ length = 0
    /\ num_workers = 0
    /\ data = <<>>
    /\ send_info = <<>>
    /\ emitter = "off"
    /\ inq = <<>>
    /\ nextw = 0
    /\ fbq = <<>>
    /\ worker = <<>>
    /\ dispatched = <<>>
    /\ received = <<>>
    /\ writes = <<>>
    /\ advances = 0

InitMPI ==
    /\ mtx_length \in 1..MaxMtxLength
    /\ world_size \in 1..MaxNodes
    /\ eager \in BOOLEAN
    /\ node = [r \in Ranks |-> NewNode(r, NumNodes(world_size, mtx_length), mtx_length)]
    /\ chan = [src \in Ranks |-> [dst \in Ranks |-> <<>>]]
    /\ rounds = [r \in Ranks |-> <<>>]
    /\ FarmOff
    /\ OmpOff
    /\ LoopOff

NodeStep(r) == NodeRound(r) \/ NodeSend(r) \/ NodeRecv(r) \/ NodeTransfer(r)

NextMPI ==
    \/ \E r \in Ranks : NodeRound(r)
    \/ \E r \in Ranks : NodeSend(r)
    \/ \E r \in Ranks : NodeRecv(r)
    \/ \E r \in Ranks : NodeTransfer(r)

SpecMPI == InitMPI /\ [][NextMPI]_vars

\* every MPI process is an operating-system process that keeps running
FairSpecMPI ==
    /\ InitMPI /\ [][NextMPI]_vars
    /\ \A r \in 0..(MaxNodes - 1) : WF_vars(r \in Ranks /\ NodeStep(r))

\* ------------------------------------------------------------------------
\* sequential.cpp, ComputeMatrix: the reference computation
\* ------------------------------------------------------------------------
RECURSIVE ComputeMatrixLoop(_, _, _, _)
ComputeMatrixLoop(d, len, num_diag, i) ==
    IF ~(num_diag < len) THEN d
    ELSE IF i > len - num_diag
    THEN ComputeMatrixLoop(d, len, num_diag + 1, 1)
    ELSE LET curr_elem == ElemInfo(len, num_diag, i)
             temp == ComputeElement(d, len, curr_elem.row, curr_elem.col, num_diag)
             d1   == SetValue(d, len, curr_elem.row, curr_elem.col, temp)
             d2   == SetValue(d1, len, curr_elem.col, curr_elem.row, temp)
         IN \* the matrix after this element is computed once, then passed on
            CHOOSE res \in {ComputeMatrixLoop(b, len, num_diag, i + 1) :
                               b \in {d2}} : TRUE

\* main of sequential.cpp: ComputeMatrix runs only if mtx_length > 1
ComputeMatrix(len) ==
    IF len > 1 THEN ComputeMatrixLoop(InitializeMatrix(len), len, 1, 1)
    ELSE InitializeMatrix(len)

\* ========================================================================
\* Part II-b : the older farm kept in parallel_fastflow.cpp (lines 250-493)
\* ========================================================================
\* main: std::vector<double> mtx{static_cast<double>(n * n), 0} is the
\* initializer-list constructor, a vector of the two elements n*n and 0
VectorSize == 2

\* main, before the seeding loop: what lies at mtx.data() + idx for the n*n
\* indices the program uses: the two elements of the vector, then what the
\* memory behind the vector holds, g
OlderVector(len, g) ==
    [idx \in 0..((len * len) - 1) |->
        IF idx = 0 THEN (len * len) * 100
        ELSE IF idx < VectorSize THEN 0 ELSE g]

\* main, the seeding loop: mtx[(m * n) + m] = (m + 1) / n for m in 0..n-1
OlderMatrix(d, len) ==
    [idx \in DOMAIN d |->
        IF idx \div len = idx % len THEN (((idx \div len) + 1) * 100) \div len
        ELSE d[idx]]

\* main: the seeding loop stores at (m * n) + m, past the vector for m >= 1
SeedsPastVector(len) == \E m \in 0..(len - 1) : GetIndex(len, m, m) >= VectorSize

\* the Emitter constructor
OlderEmitter(row_length, workers) ==
    [row_length |-> row_length, num_workers |-> workers, curr_diag |-> 0,
     chunk_size |-> 0, send_tasks |-> TRUE, curr_diag_length |-> 0]

\* Emitter::svc, "Setting Parameters" and "Setting Chunk_Size"
OlderNextDiagonal(em) ==
    LET diag == U64(em.curr_diag + 1)
        len  == U64(em.row_length - diag)
        c    == Ceil(len, em.num_workers)
    IN [em EXCEPT !.send_tasks = FALSE, !.curr_diag = diag,
                  !.curr_diag_length = len,
                  !.chunk_size = IF c > 64 THEN 64 ELSE c]

\* Emitter::svc, "Sending Tasks": for(i = 0; i < curr_diag_length; i += chunk_size)
RECURSIVE OlderTasksLoop(_, _)
OlderTasksLoop(em, i) ==
    IF i < em.curr_diag_length
    THEN <<[left_range |-> i, right_range |-> U64(i + em.chunk_size - 1),
            num_diag |-> em.curr_diag, row_length |-> em.row_length]>>
         \o OlderTasksLoop(em, U64(i + em.chunk_size))
    ELSE <<>>

\* the second half of Emitter::svc: if(send_tasks) { ... }
OlderDispatch(em) ==
    IF em.send_tasks
    THEN LET em1   == OlderNextDiagonal(em)
             tasks == OlderTasksLoop(em1, 0)
         IN /\ inq' = Deliver(inq, tasks, num_workers, nextw, 1)
            /\ nextw' = LastServed(num_workers, nextw, Len(tasks))
            /\ dispatched' = [dispatched EXCEPT ![em1.curr_diag] = @ \o tasks]
            /\ send_info' = em1
    ELSE /\ send_info' = em
         /\ UNCHANGED <<inq, nextw, dispatched>>

\* if(curr_diag >= row_length - 1): the bound is tested on the current
\* diagonal, before it is advanced
OlderAllDiagonalsDone(em) == em.curr_diag >= U64(em.row_length - 1)

\* Emitter::svc(nullptr): the first call, at the start of the farm
OlderEmitterStart ==
    /\ emitter = "older_init"
    /\ emitter' = "older_running"
    /\ OlderDispatch(send_info)
    /\ UNCHANGED <<variant, length, num_workers, data, fbq, worker, received,
                   writes, advances>>
    /\ UNCHANGED <<mpiVars, ompVars, loopVars>>

\* Emitter::svc(done_wrk): a Worker has returned a message
OlderEmitterSvc(w) ==
    /\ emitter = "older_running"
    /\ fbq[w] # <<>>
    /\ LET msg  == Head(fbq[w])
           em1  == [send_info EXCEPT
                       !.curr_diag_length = U64(send_info.curr_diag_length - msg.done)]
           done == em1.curr_diag_length <= 0
       IN /\ fbq' = [fbq EXCEPT ![w] = Tail(@)]
          /\ received' = [received EXCEPT ![msg.diag] = @ + 1]
          /\ advances' = IF done THEN advances + 1 ELSE advances
          /\ IF done /\ OlderAllDiagonalsDone(em1)
             THEN /\ emitter' = "eos"
                  /\ send_info' = em1
                  /\ UNCHANGED <<inq, nextw, dispatched>>
             ELSE /\ emitter' = "older_running"
                  /\ OlderDispatch(IF done THEN [em1 EXCEPT !.send_tasks = TRUE]
                                   ELSE em1)
    /\ UNCHANGED <<variant, length, num_workers, data, worker, writes>>
    /\ UNCHANGED <<mpiVars, ompVars, loopVars>>

\* Worker::svc: if(t->right_range > (t->row_length - t->num_diag) - 1)
OlderClamp(t) ==
    LET limit == U64(U64(t.row_length - t.num_diag) - 1)
    IN IF t.right_range > limit THEN [t EXCEPT !.right_range = limit] ELSE t

OlderIdle ==
    [state |-> "older_idle",
     t |-> [left_range |-> 0, right_range |-> 0, num_diag |-> 0, row_length |-> 0],
     num_elements |-> 0, k |-> 0]

\* Worker::svc(t) is entered: the range is clamped, num_elements is set
OlderWorkerTake(w) ==
    /\ emitter = "older_running"
    /\ worker[w].state = "older_idle"
    /\ inq[w] # <<>>
    /\ LET t == OlderClamp(Head(inq[w]))
       IN worker' = [worker EXCEPT ![w] =
                        [state |-> "older_compute", t |-> t,
                         num_elements |-> U64(t.right_range - t.left_range + 1),
                         k |-> 0]]
    /\ inq' = [inq EXCEPT ![w] = Tail(@)]
    /\ UNCHANGED <<variant, length, num_workers, data, send_info, emitter, nextw,
                   fbq, dispatched, received, writes, advances>>
    /\ UNCHANGED <<mpiVars, ompVars, loopVars>>

\* t->mtx[idx] = t->num_diag by worker w: the store of the value num_diag
\* (the cube root is commented out); a store past the end of the vector is
\* undefined, it lands in the memory behind the vector or the process aborts
OlderStore(w, idx) ==
    \/ /\ data' = [data EXCEPT ![idx] = worker[w].t.num_diag * 100]
       /\ writes' = [writes EXCEPT ![idx] = Append(@, w)]
       /\ UNCHANGED emitter
    \/ /\ idx >= VectorSize
       /\ emitter' = "aborted"
       /\ UNCHANGED <<data, writes>>

\* Worker::svc, one iteration of the loop up to the first store:
\* t->mtx[i * t->row_length + j] = t->num_diag
OlderWorkerCompute(w) ==
    /\ emitter = "older_running"
    /\ worker[w].state = "older_compute"
    /\ worker[w].k < worker[w].num_elements
    /\ LET wk == worker[w]
           i  == wk.t.left_range + wk.k
           j  == wk.t.num_diag + wk.k + wk.t.left_range
       IN OlderStore(w, GetIndex(wk.t.row_length, i, j))
    /\ worker' = [worker EXCEPT ![w].state = "older_mirror"]
    /\ UNCHANGED <<variant, length, num_workers, send_info, inq, nextw,
                   fbq, dispatched, received, advances>>
    /\ UNCHANGED <<mpiVars, ompVars, loopVars>>

\* Worker::svc, the second store: t->mtx[j * t->row_length + i] = t->num_diag
OlderWorkerMirror(w) ==
    /\ emitter = "older_running"
    /\ worker[w].state = "older_mirror"
    /\ LET wk == worker[w]
           i  == wk.t.left_range + wk.k
           j  == wk.t.num_diag + wk.k + wk.t.left_range
       IN OlderStore(w, GetIndex(wk.t.row_length, j, i))
    /\ worker' = [worker EXCEPT ![w].state = "older_compute", ![w].k = @ + 1]
    /\ UNCHANGED <<variant, length, num_workers, send_info, inq, nextw,
                   fbq, dispatched, received, advances>>
    /\ UNCHANGED <<mpiVars, ompVars, loopVars>>

\* Worker::svc returns new u64(num_elements) through the feedback channel
OlderWorkerReply(w) ==
    /\ emitter = "older_running"
    /\ worker[w].state = "older_compute"
    /\ worker[w].k >= worker[w].num_elements
    /\ fbq' = [fbq EXCEPT ![w] =
                  Append(@, [done |-> worker[w].num_elements,
                             diag |-> worker[w].t.num_diag])]
    /\ worker' = [worker EXCEPT ![w] = OlderIdle]
    /\ UNCHANGED <<variant, length, num_workers, data, send_info, emitter, inq,
                   nextw, dispatched, received, writes, advances>>
    /\ UNCHANGED <<mpiVars, ompVars, loopVars>>

\* main of the older farm, the seeding loop: a store past the end of the
\* vector is undefined, the stores land in the memory behind the vector or
\* the process aborts
OlderMainSeed ==
    /\ emitter = "older_main"
    /\ \/ /\ data' = OlderMatrix(data, length)
          /\ emitter' = "older_init"
       \/ /\ SeedsPastVector(length)
          /\ emitter' = "aborted"
          /\ UNCHANGED data
    /\ UNCHANGED <<variant, length, num_workers, send_info, inq, nextw, fbq,
                   worker, dispatched, received, writes, advances>>
    /\ UNCHANGED <<mpiVars, ompVars, loopVars>>

\* main of the older farm, up to the seeding loop: n > 0, the vector is
\* built; the Emitter and the Workers are as their constructors leave them
InitOlder ==
    /\ variant = "older"
    /\ length \in 1..MaxLength
    /\ num_workers \in 1..MaxWorkers
    /\ \E g \in Garbage : data = OlderVector(length, g)
    /\ send_info = OlderEmitter(length, num_workers)
    /\ emitter = "older_main"
    /\ inq = [w \in Workers |-> <<>>]
    /\ nextw = num_workers
    /\ fbq = [w \in Workers |-> <<>>]
    /\ worker = [w \in Workers |-> OlderIdle]
    /\ dispatched = [d \in 1..length |-> <<>>]
    /\ received = [d \in 1..length |-> 0]
    /\ writes = [idx \in 0..(length * length - 1) |-> <<>>]
    /\ advances = 0
    /\ MpiOff
    /\ OmpOff
    /\ LoopOff

NextOlder ==
    \/ OlderMainSeed
    \/ OlderEmitterStart
    \/ \E w \in Workers : OlderEmitterSvc(w)
    \/ \E w \in Workers : OlderWorkerTake(w)
    \/ \E w \in Workers : OlderWorkerCompute(w)
    \/ \E w \in Workers : OlderWorkerMirror(w)
    \/ \E w \in Workers : OlderWorkerReply(w)

\* the farm of either age: the current Emitter ends when the advanced
\* diagonal index is >= n, the older one when the current index is >= n - 1
InitFarms == Init \/ InitOlder

NextFarms == Next \/ NextOlder

SpecFarms == InitFarms /\ [][NextFarms]_vars

\* ========================================================================
\* Part II-c : the farm with a feedback channel that loses a message
\* ========================================================================
\* the messages of diagonal d held by the channel q
CountDiag(q, d) == Cardinality({k \in 1..Len(q) : q[k].diag = d})

\* the Tasks of diagonal d still on their way: waiting in an input channel,
\* held by a Worker inside svc, or returned and waiting in a feedback
\* channel, for the Workers 1..w
RECURSIVE Pending(_, _)
Pending(d, w) ==
    IF w = 0 THEN 0
    ELSE CountDiag(inq[w], d) + CountDiag(fbq[w], d)
         + (IF worker[w].state # "idle" /\ worker[w].t.diag = d THEN 1 ELSE 0)
         + Pending(d, w - 1)

\* the completions of diagonal d that were sent and will never arrive
LostCompletions(d) == Len(dispatched[d]) - Pending(d, num_workers) - received[d]

\* the feedback channel of farm.wrap_around() drops the completion at its
\* head: a completion of the diagonal the Emitter is waiting for, and the
\* only message the run loses
LoseCompletion(w) ==
    /\ emitter = "running"
    /\ fbq[w] # <<>>
    /\ Head(fbq[w]).diag = send_info.diag
    /\ \A d \in 1..length : LostCompletions(d) = 0
    /\ fbq' = [fbq EXCEPT ![w] = Tail(@)]
    /\ UNCHANGED <<variant, length, num_workers, data, send_info, emitter, inq,
                   nextw, worker, dispatched, received, writes, advances>>
    /\ UNCHANGED <<mpiVars, ompVars, loopVars>>

NextLossy == Next \/ \E w \in Workers : LoseCompletion(w)

SpecLossy == Init /\ [][NextLossy]_vars

\* ========================================================================
\* Part II-d : the two engines side by side, a farm run or an MPI run
\* ========================================================================
InitBoth == Init \/ InitMPI

NextBoth == Next \/ NextMPI

SpecBoth == InitBoth /\ [][NextBoth]_vars

\* ========================================================================
\* Part II-e : one ComputeRange call followed thread by thread
\* (utils/compute_range.h, #pragma omp parallel for; utils/compute_elem.h)
\* ========================================================================
MaxThreads == 2       \* largest OpenMP team

Threads == DOMAIN thread

\* ComputeSubMatrix of a node that is alone (my_id 0, sub_mtx_length len):
\* the diagonals before num_diag, each by one ComputeRange call
RECURSIVE EarlierDiagonals(_, _, _, _)
EarlierDiagonals(d, len, diag_num, num_diag) ==
    IF diag_num >= num_diag THEN d
    ELSE CHOOSE res \in
             {EarlierDiagonals(b, len, diag_num + 1, num_diag) :
                 b \in {ComputeRange(1, len - diag_num, len, diag_num, d)}} : TRUE

\* the buffer of rank 0 after the merge of two sub-blocks of side len div 2
MergedBlocks(len) ==
    ComputeSubMatrix(ComputeSubMatrix(InitializeMatrix(len), len, 0, len \div 2),
                     len, 1, len \div 2)

\* ComputeRange(start_range, end_range, length, num_diag, mtx) is entered:
\* if (start_range > length) return; double temp = 0.0; the loop is shared
\* out among the threads of the team
InitRange ==
    /\ FarmOff
    /\ MpiOff
    /\ \E len \in 2..MaxRangeLength : \E num_diag \in 1..(len - 1) :
       \E merged \in BOOLEAN : \E num_threads \in 1..MaxThreads :
          LET base == IF merged THEN MergedBlocks(len) ELSE InitializeMatrix(len)
              mtx  == EarlierDiagonals(base, len, 1, num_diag)
              start_range == StartRange(0, len)
              end_range   == EndRange(start_range, len - num_diag)
          IN /\ range = [mtx |-> mtx, length |-> len, num_diag |-> num_diag,
                         start_range |-> start_range, end_range |-> end_range]
             /\ iterations = IF start_range > len THEN {}
                             ELSE start_range..end_range
             /\ thread = [t \in 1..num_threads |-> [pc |-> "idle", elem |-> 0]]
    /\ shared_temp = 0
    /\ LoopOff

\* u64 row = elem - 1; u64 col = row + num_diag
RangeRow(elem) == elem - 1
RangeCol(elem) == RangeRow(elem) + range.num_diag

\* #pragma omp parallel for: a thread of the team starts an iteration no
\* thread has started (the schedule is the implementation's choice)
OmpTake(t) ==
    /\ thread[t].pc = "idle"
    /\ \E elem \in iterations :
          /\ thread' = [thread EXCEPT ![t] = [pc |-> "check", elem |-> elem]]
          /\ iterations' = iterations \ {elem}
    /\ UNCHANGED <<range, shared_temp>>
    /\ UNCHANGED <<farmVars, mpiVars, loopVars>>

\* if(!mtx.IsElemAlreadyDone(row, col))
OmpCheck(t) ==
    /\ thread[t].pc = "check"
    /\ thread' = [thread EXCEPT ![t].pc =
                     IF IsElemAlreadyDone(range.mtx, range.length,
                                          RangeRow(thread[t].elem),
                                          RangeCol(thread[t].elem))
                     THEN "idle" ELSE "reset"]
    /\ UNCHANGED <<range, shared_temp, iterations>>
    /\ UNCHANGED <<farmVars, mpiVars, loopVars>>

\* ComputeElement(mtx, row, col, num_diag, temp): res = 0.0, res being temp
OmpReset(t) ==
    /\ thread[t].pc = "reset"
    /\ shared_temp' = 0
    /\ thread' = [thread EXCEPT ![t].pc = "sum"]
    /\ UNCHANGED <<range, iterations>>
    /\ UNCHANGED <<farmVars, mpiVars, loopVars>>

\* ComputeElement: the reduction adds the dot product to res
OmpSum(t) ==
    /\ thread[t].pc = "sum"
    /\ shared_temp' = shared_temp
                      + DotProduct(range.mtx, range.length, RangeRow(thread[t].elem),
                                   RangeCol(thread[t].elem), range.num_diag, 0)
    /\ thread' = [thread EXCEPT ![t].pc = "cbrt"]
    /\ UNCHANGED <<range, iterations>>
    /\ UNCHANGED <<farmVars, mpiVars, loopVars>>

\* ComputeElement: res = std::cbrt(res)
OmpCbrt(t) ==
    /\ thread[t].pc = "cbrt"
    /\ shared_temp' = Cbrt(shared_temp)
    /\ thread' = [thread EXCEPT ![t].pc = "store"]
    /\ UNCHANGED <<range, iterations>>
    /\ UNCHANGED <<farmVars, mpiVars, loopVars>>

\* mtx.SetValue(row, col, temp)
OmpStore(t) ==
    /\ thread[t].pc = "store"
    /\ range' = [range EXCEPT !.mtx =
                    SetValueSym(@, range.length, RangeRow(thread[t].elem),
                                RangeCol(thread[t].elem), shared_temp)]
    /\ thread' = [thread EXCEPT ![t].pc = "idle"]
    /\ UNCHANGED <<shared_temp, iterations>>
    /\ UNCHANGED <<farmVars, mpiVars, loopVars>>

NextRange ==
    \/ \E t \in Threads : OmpTake(t)
    \/ \E t \in Threads : OmpCheck(t)
    \/ \E t \in Threads : OmpReset(t)
    \/ \E t \in Threads : OmpSum(t)
    \/ \E t \in Threads : OmpCbrt(t)
    \/ \E t \in Threads : OmpStore(t)

SpecRange == InitRange /\ [][NextRange]_vars

\* ========================================================================
\* Part II-f : the dispatch loop of the static variant on long diagonals
\* (Emitter::svc of the variant whose positions are u16)
\* ========================================================================
MaxU16 == 65535     \* the largest value of a u16
NearEnds == 8       \* how many of the shortest and of the longest lengths are run
MaxTasks == 8       \* Tasks after which a dispatch loop is no longer followed

\* the matrix lengths run: the shortest and the longest a u16 holds
DispatchLengths == (2..(NearEnds + 1)) \cup ((MaxU16 - NearEnds + 1)..MaxU16)

\* Emitter(mtx, num_workers): send_info(num_workers, mtx.length); svc(nullptr)
\* enters the loop with u16 num_elem = 1
InitDispatch ==
    /\ FarmOff
    /\ MpiOff
    /\ OmpOff
    /\ \E len \in DispatchLengths : \E workers \in 1..MaxWorkers :
          sending = [send_info |-> SendInfo("static", workers, len),
                     num_elem |-> 1,
                     sent |-> 0,
                     task |-> [start_range |-> 0, end_range |-> 0, diag |-> 0],
                     reach |-> 0]

\* one turn of for(u16 num_elem = 1; num_elem <= send_info.diag_length;
\* num_elem += send_info.chunk_size): Task{num_elem, num_elem + chunk_size - 1,
\* diag} is sent; sent counts the Tasks and reach is the highest position
\* of the Tasks before the last one
DispatchTask ==
    /\ sending # <<>>
    /\ sending.num_elem <= sending.send_info.diag_length
    /\ sending.sent < MaxTasks
    /\ sending' =
          [sending EXCEPT
              !.task = [start_range |-> sending.num_elem,
                        end_range |-> U16(sending.num_elem
                                            + sending.send_info.chunk_size - 1),
                        diag |-> sending.send_info.diag],
              !.num_elem = U16(sending.num_elem + sending.send_info.chunk_size),
              !.sent = sending.sent + 1,
              !.reach = IF sending.sent >= 1 /\ sending.task.end_range > sending.reach
                        THEN sending.task.end_range ELSE sending.reach]
    /\ UNCHANGED <<farmVars, mpiVars, ompVars>>

NextDispatch == DispatchTask

SpecDispatch == InitDispatch /\ [][NextDispatch]_vars

\* ========================================================================
\* Part III : properties
\* ========================================================================
CellRow(idx) == idx \div length
CellCol(idx) == idx % length
DiagOf(idx) == IF CellCol(idx) >= CellRow(idx) THEN CellCol(idx) - CellRow(idx)
               ELSE CellRow(idx) - CellCol(idx)

\* a cell holds its value: seeded (main diagonal) or stored by a Worker
Written(idx) == DiagOf(idx) = 0 \/ writes[idx] # <<>>

\* every cell of diagonal d and its mirror hold their value
DiagonalMaterialized(d) ==
    \A i \in 0..(length - d - 1) :
        /\ Written(GetIndex(length, i, i + d))
        /\ Written(GetIndex(length, i + d, i))

TaskPositions(t) == t.start_range..t.end_range
TaskSize(t) == t.end_range - t.start_range + 1

RECURSIVE SumSizes(_, _)
SumSizes(tasks, k) == IF k = 0 THEN 0 ELSE TaskSize(tasks[k]) + SumSizes(tasks, k - 1)

FullyPopulated == \A idx \in DOMAIN data : data[idx] # 0 /\ Written(idx)

Symmetric ==
    \A i \in 0..(length - 1) : \A j \in 0..(length - 1) :
        data[GetIndex(length, i, j)] = data[GetIndex(length, j, i)]

\* C1: in the farm, whenever a Worker stores into a cell of diagonal d >= 1
\* (or into its mirror), every cell of diagonal d-1 already holds its value.
C1_WriteAfterPreviousDiagonal ==
    [][\A idx \in DOMAIN writes :
          writes'[idx] # writes[idx] => DiagonalMaterialized(DiagOf(idx) - 1)]_vars

\* C1 witness: with several Workers, a Worker has just stored a cell of a
\* diagonal beyond the first
C1_Witness ==
    /\ num_workers >= 2
    /\ \E w \in Workers : worker[w].state = "mirror" /\ worker[w].t.diag >= 2

\* C2: for every diagonal d the Tasks dispatched for d cover every position
\* of [1, n-d] exactly once and no two of them overlap; no cell is ever stored
\* twice, and when the farm has ended every off-diagonal cell has been stored
\* exactly once.
C2_ExactCover ==
    /\ \A d \in 1..(length - 1) :
          dispatched[d] # <<>> =>
             /\ \A p \in 1..(length - d) :
                   Cardinality({k \in 1..Len(dispatched[d]) :
                                   p \in TaskPositions(dispatched[d][k])}) = 1
             /\ \A k1 \in 1..Len(dispatched[d]) : \A k2 \in 1..Len(dispatched[d]) :
                   k1 # k2 => TaskPositions(dispatched[d][k1])
                              \cap TaskPositions(dispatched[d][k2]) = {}
    /\ \A idx \in DOMAIN writes : Len(writes[idx]) <= 1
    /\ emitter = "eos" =>
          /\ \A d \in 1..(length - 1) : dispatched[d] # <<>>
          /\ \A idx \in DOMAIN writes : DiagOf(idx) # 0 => Len(writes[idx]) = 1

\* C2 witness: a farm run with several Workers and several diagonals has ended
C2_Witness == emitter = "eos" /\ length >= 3 /\ num_workers >= 2

\* C5: with n >= 2 and W >= 1 the farm eventually reaches end-of-stream, and
\* whenever the Emitter has emitted end-of-stream every cell is non-zero and
\* the matrix is symmetric.
C5_FarmTerminatesPopulated ==
    /\ (length >= 2 /\ num_workers >= 1) ~> (emitter = "eos")
    /\ [](emitter = "eos" => FullyPopulated /\ Symmetric)

\* C5 witness: end-of-stream reached on a matrix with several diagonals
C5_Witness == emitter = "eos" /\ length >= 3 /\ FullyPopulated

\* C6: the Emitter advances the diagonal n-1 times over a run; the diagonals
\* are dispatched in the order 1, 2, ..., n-1, diagonal d while the cursor
\* holds length n-d; for n = 1 nothing is advanced and nothing dispatched.
C6_DiagonalAdvances ==
    /\ send_info.diag = advances + 1
    /\ send_info.diag_length = length - send_info.diag
    /\ advances <= length - 1
    /\ \A d \in 1..length :
          dispatched[d] # <<>> =>
             /\ d <= length - 1
             /\ d <= send_info.diag
             /\ \A k \in 1..Len(dispatched[d]) : dispatched[d][k].diag = d
             /\ \A d2 \in 1..(d - 1) : dispatched[d2] # <<>>
    /\ emitter = "eos" =>
          /\ advances = length - 1
          /\ \A d \in 1..(length - 1) : dispatched[d] # <<>>
    /\ length = 1 =>
          /\ advances = 0
          /\ emitter \in {"init", "skipped"}
          /\ \A d \in 1..length : dispatched[d] = <<>>

\* C6 witness: a run over several diagonals has ended after n-1 advances
C6_Witness == emitter = "eos" /\ length >= 3 /\ advances = length - 1

\* C7: in the dynamic farm, Tasks of diagonal d+1 are dispatched only when
\* the completion of every Task dispatched for diagonal d has been received.
C7_DispatchAfterAllCompletions ==
    variant = "dynamic" =>
        \A d \in 1..(length - 1) :
            dispatched[d + 1] # <<>> => received[d] = Len(dispatched[d])

\* C8: in the dynamic farm, the i-th Task of a diagonal holds
\* ceil(remaining_length / remaining_idle_workers) positions.
C8_ChunkIsCeiling ==
    variant = "dynamic" =>
        \A d \in 1..length : \A i \in 1..Len(dispatched[d]) :
            TaskSize(dispatched[d][i]) =
                Ceil((length - d) - SumSizes(dispatched[d], i - 1),
                     num_workers - (i - 1))

\* C9: in the dynamic farm, the sizes of the Tasks of one diagonal are
\* non-increasing in dispatch order.
C9_ChunksNonIncreasing ==
    variant = "dynamic" =>
        \A d \in 1..length : \A i \in 1..(Len(dispatched[d]) - 1) :
            TaskSize(dispatched[d][i + 1]) <= TaskSize(dispatched[d][i])

\* C10: in the dynamic farm no dispatched Task is empty, and a diagonal
\* shorter than the Worker count gets exactly L Tasks of one position each.
C10_NoEmptyTask ==
    variant = "dynamic" =>
        \A d \in 1..length :
            dispatched[d] # <<>> =>
               /\ \A i \in 1..Len(dispatched[d]) : TaskSize(dispatched[d][i]) >= 1
               /\ (length - d) < num_workers =>
                     /\ Len(dispatched[d]) = length - d
                     /\ \A i \in 1..Len(dispatched[d]) :
                           TaskSize(dispatched[d][i]) = 1

\* the Tasks of diagonal d as the Workers process them (static variant: after
\* the clamp at the top of Worker::svc)
Processed(d) == [k \in 1..Len(dispatched[d]) |-> ClampLast(dispatched[d][k], length)]

\* C11: in the static farm every Task of a diagonal of length L processes
\* c = ceil(L / W) positions (c is the least number with c * W >= L), the
\* last Task of the diagonal between 1 and c positions; at most W Tasks are
\* dispatched per diagonal, and what a Worker holds is one of these Tasks.
C11_StaticChunk ==
    variant = "static" =>
        /\ \A d \in 1..(length - 1) :
              LET L  == length - d
                  ts == Processed(d)
              IN /\ Len(ts) <= num_workers
                 /\ \A k \in 1..Len(ts) :
                       LET c == TaskSize(ts[k])
                       IN IF k < Len(ts)
                          THEN c * num_workers >= L /\ (c - 1) * num_workers < L
                          ELSE c >= 1 /\ (c - 1) * num_workers < L
        /\ \A w \in Workers :
              worker[w].state # "idle" =>
                 \E k \in 1..Len(dispatched[worker[w].t.diag]) :
                    worker[w].t = Processed(worker[w].t.diag)[k]

\* C11 witness: a static run in which a Worker processes the last Task of a
\* diagonal sent as several Tasks, and that Task is shorter than the others
C11_Witness ==
    /\ variant = "static"
    /\ \E w \in Workers :
          /\ worker[w].state = "mirror"
          /\ LET ts == Processed(worker[w].t.diag)
             IN /\ Len(ts) >= 2
                /\ worker[w].t = ts[Len(ts)]
                /\ TaskSize(ts[Len(ts)]) < TaskSize(ts[1])

\* C12: in both variants, every Task the Emitter has sent for diagonal d
\* satisfies 1 <= start_range <= end_range <= n - d as sent.
C12_TasksClamped ==
    \A d \in 1..length : \A k \in 1..Len(dispatched[d]) :
        /\ 1 <= dispatched[d][k].start_range
        /\ dispatched[d][k].start_range <= dispatched[d][k].end_range
        /\ dispatched[d][k].end_range <= length - d

\* C13: whenever the farm is running or has run, the worker count is at
\* least 1 and at most n.
C13_WorkersClamped ==
    emitter \in {"running", "eos"} => num_workers >= 1 /\ num_workers <= length


\* C3: for 1 <= P <= n, when rank 0 has finished it is the Root and its
\* matrix equals, cell for cell, the matrix of the sequential computation.
C3_RootMatchesSequential ==
    (world_size <= mtx_length /\ node[0].pc = "done") =>
        /\ node[0].my_role = "LAST"
        /\ node[0].data = ComputeMatrix(mtx_length)

\* C3 witness: rank 0 has finished a run in which sub-blocks of side >= 2
\* were computed by several ranks and merged
C3_Witness ==
    /\ node[0].pc = "done"
    /\ world_size >= 2
    /\ mtx_length >= 2 * world_size

AllRanksDone == \A r \in Ranks : node[r].pc = "done"

\* C4: for every n >= 1 and P >= 1 every rank terminates, and the Root then
\* holds a matrix in which every cell is written.
C4_AllRanksTerminate ==
    <>(/\ AllRanksDone
       /\ node[0].my_role = "LAST"
       /\ \A idx \in DOMAIN node[0].data : node[0].data[idx] # 0)

\* the ranks main's clamp num_nodes = mtx_length leaves outside the run
Surplus == {r \in Ranks : r >= mtx_length}

\* C14: with P > n no process whose rank is >= n computes a cell, sends (or
\* tries to send) a message, or is waited for by another process.
C14_SurplusRanksIdle ==
    \A r \in Surplus :
        /\ \A k \in 1..Len(rounds[r]) : rounds[r][k].computed = {}
        /\ ~Sending(r)
        /\ \A dst \in Ranks : chan[r][dst] = <<>>
        /\ \A m \in Ranks :
              ~(Receiving(m) /\ node[m].my_supporters[node[m].i] = r)

\* the role rule as the specification words it
RoleRule(id, active_count) ==
    IF active_count = 1 THEN "LAST"
    ELSE IF id % 2 = 0 /\ id + 1 < active_count THEN "MASTER"
    ELSE "SUPPORTER"

\* the roles of the run n = 8, P = 4, round by round: role, master, supporters
Pairing(role, master, s0, s1) ==
    [my_role |-> role, my_master |-> master,
     my_supporters |-> [i \in 0..1 |-> IF i = 0 THEN s0 ELSE s1]]

RolesOf8By4 ==
    [r \in 0..3 |->
        CASE r = 0 -> <<Pairing("MASTER", -1, 1, -1), Pairing("MASTER", -1, 2, -1),
                        Pairing("LAST", -1, -1, -1)>>
          [] r = 1 -> <<Pairing("SUPPORTER", 0, -1, -1)>>
          [] r = 2 -> <<Pairing("MASTER", -1, 3, -1), Pairing("SUPPORTER", 0, -1, -1)>>
          [] r = 3 -> <<Pairing("SUPPORTER", 2, -1, -1)>>]

PairingOf(h) ==
    [my_role |-> h.my_role, my_master |-> h.my_master,
     my_supporters |-> h.my_supporters]

\* C15: in every round the role of an active rank (id < active_count) is
\* Root iff active_count = 1, Branch iff its id is even and id+1 <
\* active_count, Leaf otherwise; and for n = 8, P = 4 the rounds of every rank
\* are those of the example, all of them once the rank has finished.
C15_RolesByRule ==
    /\ \A r \in Ranks : \A k \in 1..Len(rounds[r]) :
          rounds[r][k].my_id < rounds[r][k].active_nodes =>
             rounds[r][k].my_role =
                RoleRule(rounds[r][k].my_id, rounds[r][k].active_nodes)
    /\ (mtx_length = 8 /\ world_size = 4) =>
          \A r \in Ranks :
             /\ Len(rounds[r]) <= Len(RolesOf8By4[r])
             /\ \A k \in 1..Len(rounds[r]) :
                   PairingOf(rounds[r][k]) = RolesOf8By4[r][k]
             /\ node[r].pc = "done" => Len(rounds[r]) = Len(RolesOf8By4[r])

\* C15 witness: the run n = 8, P = 4 has ended
C15_Witness ==
    /\ mtx_length = 8 /\ world_size = 4
    /\ \A r \in Ranks : node[r].pc = "done"
    /\ Len(rounds[0]) = 3

\* C16: in round k a rank holds active_nodes = P div 2^(k-1) and
\* my_id = rank div 2^(k-1), P being the node count the WavefrontNode was
\* built with; a node that has left round k and not yet entered round k+1
\* holds the values of round k+1.
C16_ClosedForms ==
    \A r \in Ranks :
        /\ \A k \in 1..Len(rounds[r]) :
              /\ rounds[r][k].iteration = k
              /\ rounds[r][k].active_nodes = node[r].total_nodes \div (2 ^ (k - 1))
              /\ rounds[r][k].my_id = r \div (2 ^ (k - 1))
        /\ node[r].pc = "loop" =>
              /\ node[r].active_nodes = node[r].total_nodes \div (2 ^ Len(rounds[r]))
              /\ node[r].my_id = r \div (2 ^ Len(rounds[r]))

\* C16 witness: with an odd node count, a rank beyond rank 0 has run a
\* second round
C16_Witness ==
    /\ world_size = 3 /\ mtx_length >= 3
    /\ Len(rounds[0]) >= 2
    /\ \E r \in Ranks : r >= 2 /\ rounds[r] # <<>>

\* C17: for 1 <= P <= n, in every round k: the master a SUPPORTER names is
\* a process that runs round k (it has not finished before), runs it as
\* MASTER with physical rank id * 2^(k-1), and lists that SUPPORTER in one of
\* its two slots; every supporter a MASTER lists is a process that runs round
\* k as a SUPPORTER whose master is that MASTER.
C17_PairingConsistent ==
    world_size <= mtx_length =>
        \A a \in Ranks : \A k \in 1..Len(rounds[a]) :
            /\ rounds[a][k].my_role = "SUPPORTER" =>
                  LET m == rounds[a][k].my_master
                  IN /\ m \in Ranks /\ m # a
                     /\ node[m].pc = "done" => Len(rounds[m]) >= k
                     /\ Len(rounds[m]) >= k =>
                           /\ rounds[m][k].my_role = "MASTER"
                           /\ m = rounds[m][k].my_id * (2 ^ (k - 1))
                           /\ \E i \in 0..1 : rounds[m][k].my_supporters[i] = a
            /\ rounds[a][k].my_role = "MASTER" =>
                  \A i \in 0..1 :
                     LET sp == rounds[a][k].my_supporters[i]
                     IN sp # -1 =>
                           /\ sp \in Ranks /\ sp # a
                           /\ node[sp].pc = "done" => Len(rounds[sp]) >= k
                           /\ Len(rounds[sp]) >= k =>
                                 /\ rounds[sp][k].my_role = "SUPPORTER"
                                 /\ rounds[sp][k].my_master = a

\* C17 witness: a run with three ranks, where rank 0 lists two supporters,
\* has ended
C17_Witness ==
    /\ world_size = 3 /\ mtx_length >= 3
    /\ \A r \in Ranks : node[r].pc = "done"
    /\ rounds[0][1].my_supporters[0] # -1 /\ rounds[0][1].my_supporters[1] # -1

\* C18: a MASTER whose second slot (id + 2) falls outside [0, active_count)
\* holds -1 in that slot, and a MASTER waiting in MPI_Recv always waits for a
\* slot that names a process.
C18_AbsentSlotSkipped ==
    \A r \in Ranks :
        /\ \A k \in 1..Len(rounds[r]) :
              (rounds[r][k].my_role = "MASTER"
                  /\ rounds[r][k].my_id + 2 >= rounds[r][k].active_nodes) =>
                 rounds[r][k].my_supporters[1] = -1
        /\ Receiving(r) =>
              /\ node[r].my_supporters[node[r].i] # -1
              /\ node[r].my_supporters[node[r].i] \in Ranks

\* C18 witness: a MASTER whose second slot is absent has left the merge of
\* that round and entered the next round
C18_Witness ==
    \E r \in Ranks :
        /\ Len(rounds[r]) >= 2
        /\ rounds[r][1].my_role = "MASTER"
        /\ rounds[r][1].my_supporters[1] = -1

\* C19: in every round the sub-block side of an active rank is
\* ceil(n / active_count): the least s with s * active_count >= n.
C19_SubBlockIsCeiling ==
    \A r \in Ranks : \A k \in 1..Len(rounds[r]) :
        rounds[r][k].my_id < rounds[r][k].active_nodes =>
           /\ rounds[r][k].sub_mtx_length * rounds[r][k].active_nodes >= mtx_length
           /\ (rounds[r][k].sub_mtx_length - 1) * rounds[r][k].active_nodes < mtx_length

\* C20: for every cell a rank computes in a round, every cell the kernel
\* reads lies in rows and columns [id*s, (id+1)*s) and already holds a value
\* in the rank's buffer.
C20_ReadsInsideOwnBlock ==
    \A r \in Ranks : \A k \in 1..Len(rounds[r]) : rounds[r][k].stray = {}

\* C20 witness: a rank beyond rank 0 has computed cells in its first round,
\* and rank 0 has computed cells of a merged block in a later round
C20_Witness ==
    /\ \E r \in Ranks : r >= 1 /\ rounds[r] # <<>> /\ rounds[r][1].computed # {}
    /\ Len(rounds[0]) >= 2 /\ rounds[0][2].computed # {}

\* ------------------------------------------------------------------------
\* C21: in every round of the distributed engine, the row ranges
\* [my_id * s, (my_id + 1) * s) owned by two distinct ranks that run the
\* round never overlap, and neither do the cells the two ranks compute.
\* ------------------------------------------------------------------------
OwnedRows(h) == (h.my_id * h.sub_mtx_length)..(((h.my_id + 1) * h.sub_mtx_length) - 1)

C21_BlocksDisjoint ==
    \A a \in Ranks : \A b \in Ranks \ {a} :
        \A k \in 1..Len(rounds[a]) :
            k <= Len(rounds[b]) =>
                /\ OwnedRows(rounds[a][k]) \cap OwnedRows(rounds[b][k]) = {}
                /\ rounds[a][k].computed \cap rounds[b][k].computed = {}

C21_Witness ==
    \E a \in Ranks : \E b \in Ranks \ {a} :
        /\ Len(rounds[a]) >= 2 /\ Len(rounds[b]) >= 2
        /\ rounds[a][2].sub_mtx_length >= 2
        /\ rounds[a][2].computed # {} /\ rounds[b][2].computed # {}

\* ------------------------------------------------------------------------
\* C22: over the whole run every cell (i, j) with j > i is computed exactly
\* once: no rank computes a cell that another rank, or itself in an earlier
\* round, has computed, and when the run is over every cell above the main
\* diagonal has been computed by some rank in some round.
\* ------------------------------------------------------------------------
RoundsRun == {<<r, k>> \in Ranks \X (1..(MaxNodes + 1)) : k <= Len(rounds[r])}

C22_ComputedOnce ==
    /\ \A p \in RoundsRun : \A q \in RoundsRun \ {p} :
           rounds[p[1]][p[2]].computed \cap rounds[q[1]][q[2]].computed = {}
    /\ AllRanksDone =>
           \A i \in 0..(mtx_length - 1) : \A j \in (i + 1)..(mtx_length - 1) :
               \E p \in RoundsRun : <<i, j>> \in rounds[p[1]][p[2]].computed

\* ------------------------------------------------------------------------
\* C23: a rank enters the merge only after its computation of the round
\* is complete: while a Leaf is sending, every cell of the sub-block it
\* sends, rows and columns first..last_row, is a cell of its buffer that
\* has been computed (is non-zero).
\* ------------------------------------------------------------------------
BlockComputed(nd, len) ==
    \A i \in nd.first..nd.last_row : \A j \in nd.first..nd.last_row :
        /\ i < len /\ j < len
        /\ nd.data[GetIndex(len, i, j)] # 0

C23_SentBlockComputed ==
    \A r \in Ranks : Sending(r) => BlockComputed(node[r], mtx_length)

\* the rows of supporter slot i of round k that rank a has stored so far
LandedRows(a, k, i) ==
    LET h == rounds[a][k]
        first_row == GetId(h.my_supporters[i], k) * h.sub_mtx_length
    IN IF Len(rounds[a]) > k \/ node[a].pc # "merge" \/ node[a].i > i
       THEN first_row..(first_row + (h.sub_mtx_length - 1))
       ELSE IF node[a].i = i THEN first_row..(node[a].row - 1)
       ELSE {}

\* ------------------------------------------------------------------------
\* C24: in the merge of round k a Branch stores every row segment at the
\* matching offset: for each of its supporters the offset
\* GetId(supporter_rank, k) * s the Branch derives equals the offset
\* id * s the Leaf sends from, and every row the Branch has stored holds,
\* on the same rows and columns, the values of the Leaf's sub-block.
\* ------------------------------------------------------------------------
C24_SegmentAtMatchingOffset ==
    \A a \in Ranks : \A k \in 1..Len(rounds[a]) : \A i \in 0..1 :
        LET h  == rounds[a][k]
            sp == h.my_supporters[i]
            first_row == GetId(sp, k) * h.sub_mtx_length
        IN (h.my_role = "MASTER" /\ sp # -1) =>
              /\ sp \in Ranks
              /\ Len(rounds[sp]) >= k =>
                     /\ rounds[sp][k].my_role = "SUPPORTER"
                     /\ first_row = rounds[sp][k].my_id * rounds[sp][k].sub_mtx_length
              /\ \A row \in LandedRows(a, k, i) :
                     \A col \in first_row..(first_row + (h.sub_mtx_length - 1)) :
                         node[a].data[GetIndex(mtx_length, row, col)] =
                             node[sp].data[GetIndex(mtx_length, row, col)]

C24_Witness ==
    /\ Receiving(0) /\ node[0].iteration = 2 /\ node[0].sub_mtx_length >= 2
    /\ node[0].my_supporters[node[0].i] = 2
    /\ node[0].row > node[0].first

\* ------------------------------------------------------------------------
\* C25: a farm run with 1 worker and a farm run with W > 1 workers on the
\* same n end with identical matrices: whatever the variant, the number of
\* workers, the chunk partition and the interleaving of the workers, the
\* matrix the farm ends with is the one matrix the recurrence defines for
\* n, the matrix of the sequential computation.
\* ------------------------------------------------------------------------
C25_SameMatrixForAnyWorkers ==
    emitter = "eos" => data = ComputeMatrix(length)

\* C25 witness: a finished run on n >= 4 in which two workers stored cells
C25_Witness ==
    /\ emitter = "eos" /\ length >= 4
    /\ \E p \in DOMAIN writes : \E q \in DOMAIN writes :
          /\ writes[p] # <<>> /\ writes[q] # <<>>
          /\ Head(writes[p]) # Head(writes[q])

\* the farm has nothing left to do: no task waits, no worker is busy and
\* no completion is on its way
Quiescent ==
    /\ \A w \in Workers : inq[w] = <<>> /\ fbq[w] = <<>>
    /\ \A w \in Workers : worker[w].state \in {"idle", "older_idle"}

\* ------------------------------------------------------------------------
\* C26: for n = 2 a farm run computes exactly one off-diagonal pair, cell
\* (0,1) with its mirror (1,0), and then terminates, under both termination
\* conventions (the current Emitter and the older one): no other cell is
\* ever stored, neither cell is stored twice, the run does not break off
\* or come to rest before the Emitter has signalled the end, and when the
\* Emitter signals the end both cells have been stored.
\* ------------------------------------------------------------------------
C26_OnePairThenTerminates ==
    length = 2 =>
        /\ \A idx \in DOMAIN writes :
               /\ Len(writes[idx]) <= 1
               /\ writes[idx] # <<>> => idx \in {GetIndex(2, 0, 1), GetIndex(2, 1, 0)}
        /\ emitter # "aborted"
        /\ (emitter \in {"running", "older_running"}) => ~Quiescent
        /\ emitter = "eos" =>
               /\ Len(writes[GetIndex(2, 0, 1)]) = 1
               /\ Len(writes[GetIndex(2, 1, 0)]) = 1

\* ------------------------------------------------------------------------
\* C27: if a completion sent by a worker for the current diagonal is lost,
\* the farm stalls for good: from then on the Emitter stays on that
\* diagonal, never dispatches the next one and never signals the end, and
\* no task of the diagonal is sent a second time.
\* ------------------------------------------------------------------------
C27_LostCompletionStalls ==
    \A d \in 1..length :
        LostCompletions(d) > 0 =>
            /\ emitter = "running"
            /\ send_info.diag = d
            /\ d < length => dispatched[d + 1] = <<>>
            /\ \A j \in 1..Len(dispatched[d]) : \A k \in 1..Len(dispatched[d]) :
                   j # k => TaskPositions(dispatched[d][j]) \cap
                                TaskPositions(dispatched[d][k]) = {}

\* the buffer d of an n x n matrix holds the same value in (i, j) and (j, i)
SymmetricMtx(d, n) ==
    \A i \in 0..(n - 1) : \A j \in 0..(n - 1) :
        d[GetIndex(n, i, j)] = d[GetIndex(n, j, i)]

\* rank r has stored some rows of a supporter's block and not yet all
MidBlock(r) == Receiving(r) /\ node[r].row > node[r].first

\* ------------------------------------------------------------------------
\* C28: once a cell (i, j) is written, cell (j, i) holds the same value:
\* in every state in which no farm Worker stands between its two stores
\* the farm's matrix is symmetric, and the buffer of every MPI rank that is
\* not in the middle of storing a received block is symmetric.
\* ------------------------------------------------------------------------
C28_SymmetricStorage ==
    /\ (\A w \in Workers : worker[w].state # "mirror") =>
           SymmetricMtx(data, length)
    /\ \A r \in Ranks : ~MidBlock(r) => SymmetricMtx(node[r].data, mtx_length)

\* C28 witness: a rank that has computed cells in two rounds and stored a
\* whole block in between waits for the first row of the next block
C28_Witness ==
    \E r \in Ranks :
        /\ Receiving(r) /\ ~MidBlock(r)
        /\ Len(rounds[r]) = 2
        /\ rounds[r][1].computed # {} /\ rounds[r][2].computed # {}

\* the offset of the diagonal the cell q lies on
OffsetOf(q) == IF q[2] >= q[1] THEN q[2] - q[1] ELSE q[1] - q[2]

\* ------------------------------------------------------------------------
\* C29: whenever a Worker runs the kernel for a cell (i, j) with
\* k = j - i >= 1, the kernel reads exactly the cells (i, i+t) and
\* (j, i+1+t) for t in 0..k-1, every cell it reads is a cell of the matrix
\* on a diagonal of offset smaller than k, and the kernel writes nothing:
\* the only cell that changes in the step is (i, j), stored by the caller
\* with the value the kernel returned.
\* ------------------------------------------------------------------------
C29_KernelReadsLowerDiagonals ==
    [][\A w \in Workers :
          (worker[w].state = "compute" /\ worker'[w].state = "mirror") =>
             LET elem == ElemInfo(length, worker[w].t.diag, worker[w].num_elem)
                 i == elem.row
                 j == elem.col
                 k == j - i
                 reads == KernelReads(i, j, worker[w].t.diag)
             IN /\ k >= 1
                /\ reads = {<<i, i + t>> : t \in 0..(k - 1)}
                             \cup {<<j, i + 1 + t>> : t \in 0..(k - 1)}
                /\ \A q \in reads :
                      /\ q[1] \in 0..(length - 1) /\ q[2] \in 0..(length - 1)
                      /\ OffsetOf(q) < k
                /\ \A idx \in DOMAIN data :
                      idx # GetIndex(length, i, j) => data'[idx] = data[idx]
                /\ data'[GetIndex(length, i, j)] = worker'[w].temp]_vars

\* C29 witness: a Worker has just run the kernel for a cell of a diagonal
\* beyond the second, in a row below the first
C29_Witness ==
    \E w \in Workers :
        /\ worker[w].state = "mirror"
        /\ worker[w].t.diag >= 3
        /\ ElemInfo(length, worker[w].t.diag, worker[w].num_elem).row >= 1

\* the recurrence as the README words it:
\* mtx[i][j] = cbrt(sum from k = 0 to j - 1 of mtx[i][k] * mtx[j][k + 1])
ReadmePairs(i, j) == {<<<<i, k>>, <<j, k + 1>>>> : k \in 0..(j - 1)}

\* ------------------------------------------------------------------------
\* C30: the products the program accumulates for a cell (i, j), j > i, are
\* those of the README's recurrence: exactly the pairs of cells
\* ((i, k), (j, k+1)) for k in 0..j-1.
\* ------------------------------------------------------------------------
C30_ReadmeRecurrence ==
    [][\A w \in Workers :
          (worker[w].state = "compute" /\ worker'[w].state = "mirror") =>
             LET elem == ElemInfo(length, worker[w].t.diag, worker[w].num_elem)
             IN KernelPairs(elem.row, elem.col, worker[w].t.diag) =
                    ReadmePairs(elem.row, elem.col)]_vars

\* the cells of Task t on an n x n matrix: the elements of its range on its
\* diagonal, and their mirrors
TaskCells(t, n) ==
    UNION {{GetIndex(n, p - 1, (p - 1) + t.diag), GetIndex(n, (p - 1) + t.diag, p - 1)} :
              p \in TaskPositions(t)}

\* ------------------------------------------------------------------------
\* C31: a Worker step (taking a Task, computing or storing an element of
\* its chunk, sending the completion) leaves the diagonal cursor unchanged
\* (diagonal index, remaining length, outstanding counter, send flag) and
\* with it the Emitter; the only cells that change are cells of the range of
\* the Worker's Task on the Task's diagonal and their mirrors, and no
\* channel of another Worker changes.
\* ------------------------------------------------------------------------
C31_WorkerLeavesCursor ==
    [][\A w \in Workers :
          worker'[w] # worker[w] =>
             /\ send_info' = send_info
             /\ emitter' = emitter
             /\ \A idx \in DOMAIN data :
                   (data'[idx] # data[idx] \/ writes'[idx] # writes[idx]) =>
                      idx \in TaskCells(worker[w].t, length)
             /\ \A v \in Workers \ {w} :
                   inq'[v] = inq[v] /\ fbq'[v] = fbq[v] /\ worker'[v] = worker[v]]_vars

\* C31 witness: a Worker has stored an element beyond the first of a Task
\* of several elements
C31_Witness ==
    \E w \in Workers :
        /\ worker[w].state = "mirror"
        /\ worker[w].t.start_range < worker[w].t.end_range
        /\ worker[w].num_elem > worker[w].t.start_range

\* the count the Worker that processes Task t reports for it
CountOf(t) ==
    ComputedElems(variant, IF variant = "static" THEN ClampLast(t, length) ELSE t)

\* the counts of the Tasks of diagonal d among the first k of the sequence q
RECURSIVE TaskCounts(_, _, _)
TaskCounts(q, d, k) ==
    IF k = 0 THEN 0
    ELSE (IF q[k].diag = d THEN CountOf(q[k]) ELSE 0) + TaskCounts(q, d, k - 1)

\* the counts of the completions of diagonal d among the first k of q
RECURSIVE ReplyCounts(_, _, _)
ReplyCounts(q, d, k) ==
    IF k = 0 THEN 0
    ELSE (IF q[k].diag = d THEN q[k].done ELSE 0) + ReplyCounts(q, d, k - 1)

\* the counts of diagonal d the Emitter has not received yet: Tasks waiting,
\* Tasks being processed and completions on their way, for Workers 1..w
RECURSIVE PendingCounts(_, _)
PendingCounts(d, w) ==
    IF w = 0 THEN 0
    ELSE TaskCounts(inq[w], d, Len(inq[w]))
         + (IF worker[w].state # "idle" /\ worker[w].t.diag = d
            THEN ComputedElems(variant, worker[w].t) ELSE 0)
         + ReplyCounts(fbq[w], d, Len(fbq[w]))
         + PendingCounts(d, w - 1)

\* the sum of the completion counts the Emitter has received for diagonal d
ReceivedCounts(d) ==
    TaskCounts(dispatched[d], d, Len(dispatched[d])) - PendingCounts(d, num_workers)

\* ------------------------------------------------------------------------
\* C32: the counts the Workers report for one diagonal add up to exactly
\* its length, and while the farm runs the Emitter's outstanding counter
\* equals the length of the current diagonal minus the sum of the counts
\* received for it; a completion of the current diagonal never exceeds the
\* counter (the unsigned counter never wraps), and the counter reaches zero
\* only with the completion that makes the Emitter leave the diagonal.
\* ------------------------------------------------------------------------
C32_CounterIsOutstanding ==
    /\ [](emitter = "running" =>
            /\ \A d \in 1..(length - 1) :
                  dispatched[d] # <<>> =>
                     TaskCounts(dispatched[d], d, Len(dispatched[d])) = length - d
            /\ send_info.diag_length = length - send_info.diag
            /\ send_info.computed_elements =
                  send_info.diag_length - ReceivedCounts(send_info.diag)
            /\ send_info.computed_elements > 0)
    /\ [][\A w \in Workers :
            (emitter = "running" /\ fbq[w] # <<>> /\ fbq'[w] = Tail(fbq[w])) =>
               LET msg == Head(fbq[w])
               IN /\ msg.done >= 0
                  /\ msg.done <= send_info.computed_elements
                  /\ msg.diag # send_info.diag => msg.done = 0
                  /\ send_info'.diag # send_info.diag <=>
                         msg.done = send_info.computed_elements]_vars

\* C32 witness: with several Workers, on a diagonal beyond the first, some
\* counts of the diagonal have been received and some are outstanding
C32_Witness ==
    /\ emitter = "running" /\ num_workers >= 2 /\ send_info.diag >= 2
    /\ send_info.computed_elements > 0
    /\ send_info.computed_elements < send_info.diag_length

\* the elements of its Task a Worker has still to compute
ToCompute(w) ==
    IF worker[w].state = "compute" THEN worker[w].num_elem..worker[w].t.end_range
    ELSE IF worker[w].state = "mirror"
         THEN (worker[w].num_elem + 1)..worker[w].t.end_range
    ELSE {}

\* the cells a running Worker may still read: the operands of ComputeElement
\* for every element it has still to compute
MayRead(w) ==
    UNION {LET elem == ElemInfo(length, worker[w].t.diag, p)
           IN {GetIndex(length, c[1], c[2]) :
                  c \in KernelReads(elem.row, elem.col, worker[w].t.diag)} :
              p \in ToCompute(w)}

\* the cells a running Worker may still write: both stores of every element
\* it has still to compute, and the pending mirror store of the current one
MayWrite(w) ==
    UNION {LET elem == ElemInfo(length, worker[w].t.diag, p)
           IN {GetIndex(length, elem.row, elem.col),
               GetIndex(length, elem.col, elem.row)} : p \in ToCompute(w)}
    \cup (IF worker[w].state = "mirror"
          THEN LET elem == ElemInfo(length, worker[w].t.diag, worker[w].num_elem)
               IN {GetIndex(length, elem.col, elem.row)}
          ELSE {})

\* ------------------------------------------------------------------------
\* C33: the farm has no data race on the shared matrix: in every reachable
\* state the cells a running Worker may still read are disjoint from the
\* cells any other running Worker may still write, and no two Workers may
\* write the same cell.
\* ------------------------------------------------------------------------
C33_NoDataRace ==
    \A w \in Workers : \A v \in Workers \ {w} :
        /\ MayRead(w) \cap MayWrite(v) = {}
        /\ MayWrite(w) \cap MayWrite(v) = {}

\* C33 witness: two Workers are in the middle of their Tasks at once, each
\* with cells to read and cells to write
C33_Witness ==
    \E w \in Workers : \E v \in Workers \ {w} :
        /\ MayRead(w) # {} /\ MayWrite(w) # {}
        /\ MayRead(v) # {} /\ MayWrite(v) # {}
        /\ worker[v].state = "mirror"

\* the iterations of the ComputeRange call that have come to their end
Finished(elem) ==
    /\ elem \in range.start_range..range.end_range
    /\ elem \notin iterations
    /\ \A t \in Threads : thread[t].pc = "idle" \/ thread[t].elem # elem

\* ------------------------------------------------------------------------
\* C34: when the iterations of ComputeRange run on several threads, every
\* cell (row, col) of a finished iteration holds the kernel result of that
\* same cell, whatever the interleaving of the threads.
\* ------------------------------------------------------------------------
C34_StoresOwnResult ==
    range # <<>> =>
       \A elem \in range.start_range..range.end_range :
          Finished(elem) =>
             GetValue(range.mtx, range.length, RangeRow(elem), RangeCol(elem))
                = ComputeElement(range.mtx, range.length, RangeRow(elem),
                                 RangeCol(elem), range.num_diag)

\* rank r can take a step: it is at the top of its loop, or in an MPI_Send
\* or an MPI_Recv that can complete
CanMove(r) ==
    \/ node[r].pc = "loop"
    \/ eager /\ Sending(r)
    \/ Receiving(r) /\ chan[node[r].my_supporters[node[r].i]][r] # <<>>
    \/ /\ ~eager
       /\ Sending(r)
       /\ node[r].my_master \in Ranks
       /\ Receiving(node[r].my_master)
       /\ node[node[r].my_master].my_supporters[node[node[r].my_master].i] = r

\* the round of rank r with the given iteration, if r has begun it
HasRound(r, it) == it >= 1 /\ it <= Len(rounds[r])

OwnComputed(r) ==
    UNION {{rc, <<rc[2], rc[1]>>} :
              rc \in UNION {rounds[r][k].computed : k \in 1..Len(rounds[r])}}

\* the places of the buffer the receive rank r is in hands to MPI_Recv
RecvPlaces(r) ==
    {GetIndex(mtx_length, node[r].row, node[r].first) + k :
        k \in 0..(node[r].sub_mtx_length - 1)}

\* ------------------------------------------------------------------------
\* C36: a receive of a Branch from a Leaf stores into cells of the Leaf's
\* sub-block square only, rows and columns [lid*s, (lid+1)*s) with lid the
\* Leaf's logical id, leaves every other cell as it was, and never stores
\* into a cell the Branch computed itself in this or an earlier round.
\* ------------------------------------------------------------------------
C36_ReceiveStaysInLeafBlock ==
    [][\A r \in Ranks :
          (Receiving(r) /\ node'[r] # node[r]) =>
             LET src == node[r].my_supporters[node[r].i]
                 lid == node[src].my_id
                 s   == node[r].sub_mtx_length
                 blk == (lid * s)..(((lid + 1) * s) - 1)
             IN /\ node[src].my_role = "SUPPORTER"
                /\ node[r].row \in blk
                /\ \A k \in 0..(s - 1) : (node[r].first + k) \in blk
                /\ ((lid + 1) * s) <= mtx_length
                /\ \A idx \in DOMAIN node[r].data :
                      node'[r].data[idx] # node[r].data[idx] => idx \in RecvPlaces(r)
                /\ \A k \in 0..(s - 1) :
                      <<node[r].row, node[r].first + k>> \notin OwnComputed(r)]_vars

\* C36 witness: in its second round or later, a Branch that computed cells
\* itself has stored a row of a Leaf whose sub-block has side 2 or more
C36_Witness ==
    \E r \in Ranks :
        /\ node[r].my_role = "MASTER"
        /\ node[r].pc = "merge"
        /\ node[r].iteration >= 2
        /\ node[r].sub_mtx_length >= 2
        /\ node[r].row > node[r].first
        /\ OwnComputed(r) # {}

\* ------------------------------------------------------------------------
\* C37: for 1 <= P <= n, every row segment handed to MPI_Send or MPI_Recv
\* lies inside the n*n buffer and inside one matrix row: it starts at
\* row*n + first_col with row < n and first_col + s <= n.
\* ------------------------------------------------------------------------
C37_SegmentInsideRow ==
    world_size <= mtx_length =>
       \A r \in Ranks :
          (Sending(r) \/ Receiving(r)) =>
             LET s      == node[r].sub_mtx_length
                 offset == GetIndex(mtx_length, node[r].row, node[r].first)
             IN /\ node[r].row >= 0 /\ node[r].row < mtx_length
                /\ node[r].first >= 0 /\ node[r].first + s <= mtx_length
                /\ offset = (node[r].row * mtx_length) + node[r].first
                /\ \A k \in 0..(s - 1) :
                      /\ (offset + k) \in DOMAIN node[r].data
                      /\ (offset + k) \div mtx_length = node[r].row

\* C37 witness: a Leaf sends the last row of the matrix, a segment of two or
\* more cells that ends with the last cell of the buffer
C37_Witness ==
    /\ world_size <= mtx_length
    /\ \E r \in Ranks :
          /\ Sending(r)
          /\ node[r].sub_mtx_length >= 2
          /\ node[r].row = mtx_length - 1
          /\ node[r].first + node[r].sub_mtx_length = mtx_length

\* floor(log2 p) for p >= 1
RECURSIVE Log2Floor(_)
Log2Floor(p) == IF p <= 1 THEN 0 ELSE 1 + Log2Floor(p \div 2)

\* ------------------------------------------------------------------------
\* C38: for 1 <= P <= n, rank 0 is Branch in its first floor(log2 P) rounds
\* and Root in round floor(log2 P) + 1, its last; no other rank is ever Root;
\* every other rank is Branch in zero or more rounds, then Leaf in one
\* round, which is its last.
\* ------------------------------------------------------------------------
C38_RoundsPerRank ==
    world_size <= mtx_length =>
       /\ Len(rounds[0]) <= Log2Floor(world_size) + 1
       /\ \A k \in 1..Len(rounds[0]) :
             /\ rounds[0][k].iteration = k
             /\ rounds[0][k].my_role =
                   IF k = Log2Floor(world_size) + 1 THEN "LAST" ELSE "MASTER"
       /\ node[0].pc = "done" => Len(rounds[0]) = Log2Floor(world_size) + 1
       /\ \A r \in Ranks \ {0} :
             /\ \A k \in 1..Len(rounds[r]) :
                   /\ rounds[r][k].iteration = k
                   /\ rounds[r][k].my_role \in {"MASTER", "SUPPORTER"}
                   /\ rounds[r][k].my_role = "SUPPORTER" => k = Len(rounds[r])
             /\ node[r].pc = "done" =>
                   /\ Len(rounds[r]) >= 1
                   /\ rounds[r][Len(rounds[r])].my_role = "SUPPORTER"
             /\ (Len(rounds[r]) >= 1 /\ rounds[r][Len(rounds[r])].my_role = "SUPPORTER") =>
                   node[r].pc \in {"merge", "done"}

\* C38 witness: four ranks have finished; rank 0 ran three rounds and rank 2
\* was Branch in one round and Leaf in the next
C38_Witness ==
    /\ world_size = 4 /\ world_size <= mtx_length
    /\ AllRanksDone
    /\ Len(rounds[0]) = 3
    /\ Len(rounds[2]) = 2
    /\ rounds[2][1].my_role = "MASTER"

\* ------------------------------------------------------------------------
\* C39: in the static variant with u16 positions, the dispatch loop over a
\* diagonal of any length up to 65534 sends at most W Tasks; the position
\* counter and the bounds of the Tasks never wrap around modulo 2^16, so
\* no Task ends below its start and no position is sent twice.
\* ------------------------------------------------------------------------
C39_DispatchNeverWraps ==
    (sending # <<>> /\ sending.send_info.diag_length <= MaxU16 - 1) =>
       LET si == sending.send_info
       IN /\ sending.sent <= si.num_workers
          /\ sending.num_elem = 1 + (sending.sent * si.chunk_size)
          /\ sending.sent >= 1 =>
                /\ sending.task.end_range = sending.task.start_range + si.chunk_size - 1
                /\ sending.task.start_range <= sending.task.end_range
                /\ sending.task.start_range > sending.reach

====
